---- MODULE Spec2Model ----
(***************************************************************************)
(* The AnyTLS client session pool (transport/anytls/session/client.go):    *)
(* Client.CreateStream, the stream and session death hooks, Client.Close   *)
(* and the periodic Client.cleanup with its proactive creators, as         *)
(* interleaved goroutines over the idle pool (skiplist) and the session    *)
(* registry (map).  One action is one step that no other goroutine can     *)
(* split: a mutex critical section, an atomic operation, or one blocking   *)
(* call.                                                                    *)
(***************************************************************************)
EXTENDS Integers, Sequences, FiniteSets, TLC

\* ---------------------------------------------------------------- bounds
\* Sessions ever created by one Client (caps sessionCounter).
MaxSessions == 2
\* Concurrent callers of CreateStream; each holds at most one stream.
NumAcquirers == 1
\* Calls of Client.Close.
MaxCloseCalls == 2
\* Advances of the wall clock.
MaxAdvance == 1
\* Proactive creator goroutines alive at once.
MaxCreators == 1
\* Maintenance alone: sessions idle in the pool at the start.
MaxIdleAtStart == 2
\* Maintenance alone: the largest ensure-idle-session.
MaxEnsure == 3
\* Maintenance alone: sessions created after the start.
MaxCreated == 3
\* Maintenance alone: firings of the ticker.
MaxTicks == 3
MaxOverlap == 4
MaxLockCloses == 1
NumCallers == 2

\* ------------------------------------------------------------- constants
\* math.MaxUint64, scaled to TLC's integer range: only the reversal of the
\* order of seq by  MaxUint64 - seq  is used.
MaxUint64 == 2147483647
\* time.Second in clock units (nanoseconds in the source, scaled to
\* milliseconds so that durations fit TLC's integers).
Second == 1000

Seqs == 1..MaxSessions
Acquirers == 1..NumAcquirers
None == 0

VARIABLES
    die,            \* c.die is done (dieCancel has run)
    sessionCounter, \* c.sessionCounter
    idleSession,    \* c.idleSession: the set of keys of the skiplist
    sessions,       \* c.sessions: the set of seq of the map
    cfg,            \* the Client's configuration fields
    now,            \* the wall clock, time.Now()
    sess,           \* per seq: the Session's life cycle
    createdAt,      \* per seq: session.createdAt
    idleSince,      \* per seq: session.idleSince
    bornCancelled,  \* seqs assigned when c.die was already done
    hookRuns,       \* per seq: completed runs of session.dieHook
    apc,            \* per acquirer: position in CreateStream / stream.dieHook
    asess,          \* per acquirer: its local variable session
    ares,           \* per acquirer: what its last CreateStream returned
    asyncClose,     \* sessions with a pending  go session.Close()
    kpc,            \* Client.Close caller: position
    kCalls,         \* Client.Close caller: calls started
    kToClose,       \* Client.Close: sessionToClose still to be closed
    kCur,           \* Client.Close: the session whose Close() it is inside
    kFirst,         \* the sessions snapshotted by the first Close call
    tpc,            \* cleanup: position
    tToClose,       \* cleanup: idleSessionsToClose \o ageSessionsToClose, left
    tIdleN,         \* cleanup: how many of tToClose are idleSessionsToClose
    tPool,          \* cleanup: currentPoolSize
    cDial,          \* proactive creators inside c.dialOut
    cAdd,           \* proactive creators between dialOut and sessionCounter.Add
    cReg,           \* proactive creators' sessions not yet registered
    cIns,           \* proactive creators' sessions registered, not yet inserted
    dialDone,       \* the createSession calls between the return of their
                    \* dial and the registration, in the order the dials
                    \* returned: who dialed, c.sessionCounter at the return,
                    \* and the seq once it is taken
    lastReturned,   \* the session the last stream hook pooled, until the
                    \* next pop, cleanup step, creator insert or session death
    openFailed,     \* the sessions on which CreateStream's OpenStream failed
    globalAnyTLSSessionConfig,  \* the global session config: <<>> is nil
    option,         \* the AnyTLSOption of the proxy: its legacy fields and
                    \* SessionOverride (<<>> is nil, <<v>> points at v)
    tOption,        \* NewAnyTLS's merged ClientConfig
    client,         \* TRUE once NewAnyTLS has made the outbound's Client
    idleSessionLock,    \* the thread that holds c.idleSessionLock, or NoThread
    sessionsLock,       \* the thread that holds c.sessionsLock, or NoThread
    script,         \* per thread, the lock operations and calls it has
                    \* still to make
    inCall          \* per thread, the network call it is inside

vars == <<die, sessionCounter, idleSession, sessions, cfg, now, sess, createdAt,
          idleSince, bornCancelled, hookRuns, apc, asess, ares, asyncClose,
          kpc, kCalls, kToClose, kCur, kFirst, tpc, tToClose, tIdleN, tPool,
          cDial, cAdd, cReg, cIns, dialDone, lastReturned, openFailed,
          globalAnyTLSSessionConfig, option, tOption, client,
          idleSessionLock, sessionsLock, script, inCall>>

clientVars == <<die, sessionCounter, idleSession, sessions, cfg>>
sessVars == <<sess, createdAt, idleSince, bornCancelled, hookRuns>>
acqVars == <<apc, asess, ares>>
closeVars == <<kpc, kCalls, kToClose, kCur, kFirst>>
tickVars == <<tpc, tToClose, tIdleN, tPool>>
creatorVars == <<cDial, cAdd, cReg, cIns, dialDone>>
historyVars == <<openFailed>>
configVars == <<globalAnyTLSSessionConfig, option, tOption, client>>
lockVars == <<idleSessionLock, sessionsLock, script, inCall>>
auxVars == <<historyVars, configVars, lockVars>>

\* ------------------------------------------------------------ idle pool
\* The skiplist key of a session: math.MaxUint64 - session.seq.
Key(seq) == MaxUint64 - seq

\* The session stored under a key.
SeqOf(key) == MaxUint64 - key

\* Mutant of MinKey: the iteration starts from the largest key.
MaxKey(keys) == CHOOSE k \in keys : \A j \in keys : k >= j

\* The first element of the skiplist's iteration: the smallest key.
MinKey(keys) == CHOOSE k \in keys : \A j \in keys : k <= j

\* The sessions in the idle pool.
IdleSeqs == {SeqOf(k) : k \in idleSession}

\* ------------------------------------------------------------- Session
\* session.IsClosed(): the session's die channel is closed.
IsClosed(s) == sess[s] \in {"closed", "hookIdleDone", "dead"}

\* session.Close(), first half: the dieOnce that marks the session closed.
\* The caller that wins it runs session.dieHook; any other returns at once.
SessionCloseWins(s) == sess[s] = "running"

SessionMarkClosed(s) == sess' = [sess EXCEPT ![s] = "closed"]

\* session.dieHook, first critical section: remove from the idle pool.
SessionDieHookIdle(s) ==
    /\ sess[s] = "closed"
    /\ idleSession' = idleSession \ {Key(s)}
    /\ sess' = [sess EXCEPT ![s] = "hookIdleDone"]
    /\ lastReturned' = None
    /\ UNCHANGED <<die, sessionCounter, sessions, cfg, now, createdAt, idleSince,
                   bornCancelled, hookRuns, acqVars, asyncClose, closeVars,
                   tickVars, creatorVars, auxVars>>

\* session.dieHook, second critical section: delete from the registry.
SessionDieHookRegistry(s) ==
    /\ sess[s] = "hookIdleDone"
    /\ sessions' = sessions \ {s}
    /\ sess' = [sess EXCEPT ![s] = "dead"]
    /\ hookRuns' = [hookRuns EXCEPT ![s] = @ + 1]
    /\ UNCHANGED <<die, sessionCounter, idleSession, cfg, now, createdAt,
                   idleSince, bornCancelled, acqVars, asyncClose, closeVars,
                   tickVars, creatorVars, lastReturned, auxVars>>

\* The transport of a running session fails: the session closes itself.
SessionDies(s) ==
    /\ sess[s] = "running"
    /\ SessionMarkClosed(s)
    /\ lastReturned' = None
    /\ UNCHANGED <<clientVars, now, createdAt, idleSince, bornCancelled,
                   hookRuns, acqVars, asyncClose, closeVars, tickVars,
                   creatorVars, auxVars>>

\* go session.Close() of the stream hook, when it is scheduled.
AsyncSessionClose(s) ==
    /\ s \in asyncClose
    /\ asyncClose' = asyncClose \ {s}
    /\ IF SessionCloseWins(s) THEN SessionMarkClosed(s) ELSE UNCHANGED sess
    /\ lastReturned' = None
    /\ UNCHANGED <<clientVars, now, createdAt, idleSince, bornCancelled,
                   hookRuns, acqVars, closeVars, tickVars, creatorVars,
                   auxVars>>

\* session.OpenStream() fails on a closed session; on an open one it may
\* fail as well (the write of the stream's first frame).
OpenStreamOutcomes(s) == IF IsClosed(s) THEN {FALSE} ELSE {TRUE, FALSE}

\* Mutant of CreateStreamEnter: CreateStream without the check of c.die.
CreateStreamEnterUnchecked(a) ==
    /\ apc[a] = "idle"
    /\ ares' = [ares EXCEPT ![a] = "none"]
    /\ apc' = [apc EXCEPT ![a] = "getIdle"]
    /\ UNCHANGED <<clientVars, now, sessVars, asess, asyncClose, closeVars,
                   tickVars, creatorVars, lastReturned, auxVars>>

\* -------------------------------------------------------- CreateStream
\* CreateStream, lines 91-95: the check of c.die.
CreateStreamEnter(a) ==
    /\ apc[a] = "idle"
    /\ IF die
         THEN /\ ares' = [ares EXCEPT ![a] = "ErrClosedPipe"]
              /\ UNCHANGED apc
         ELSE /\ ares' = [ares EXCEPT ![a] = "none"]
              /\ apc' = [apc EXCEPT ![a] = "getIdle"]
    /\ UNCHANGED <<clientVars, now, sessVars, asess, asyncClose, closeVars,
                   tickVars, creatorVars, lastReturned, auxVars>>

\* Mutant of GetIdleSession: the first element is returned and left in
\* the skiplist.
GetIdleSessionPeek(a) ==
    /\ apc[a] = "getIdle"
    /\ IF idleSession # {}
         THEN /\ asess' = [asess EXCEPT ![a] = SeqOf(MinKey(idleSession))]
              /\ apc' = [apc EXCEPT ![a] = "open"]
         ELSE /\ apc' = [apc EXCEPT ![a] = "dial"]
              /\ UNCHANGED asess
    /\ lastReturned' = None
    /\ UNCHANGED <<die, sessionCounter, idleSession, sessions, cfg, now,
                   sessVars, ares, asyncClose, closeVars, tickVars,
                   creatorVars, auxVars>>

\* getIdleSession: under idleSessionLock, take the first element of the
\* skiplist (the smallest key) and remove it.
GetIdleSession(a) ==
    /\ apc[a] = "getIdle"
    /\ IF idleSession # {}
         THEN /\ asess' = [asess EXCEPT ![a] = SeqOf(MinKey(idleSession))]
              /\ idleSession' = idleSession \ {MinKey(idleSession)}
              /\ apc' = [apc EXCEPT ![a] = "open"]
         ELSE /\ apc' = [apc EXCEPT ![a] = "dial"]
              /\ UNCHANGED <<asess, idleSession>>
    /\ lastReturned' = None
    /\ UNCHANGED <<die, sessionCounter, sessions, cfg, now, sessVars, ares,
                   asyncClose, closeVars, tickVars, creatorVars, auxVars>>

\* Dials that completed and have not yet taken their seq.
PendingAdds == cAdd + Cardinality({a \in DOMAIN apc : apc[a] = "add"})

\* The tag of the proactive creators in dialOut's record of returns (the
\* creators are interchangeable); an acquirer is tagged by its number.
Proactive == None

\* createSession, line 145: c.dialOut(ctx) returns a connection to who.
DialReturns(who) ==
    dialDone' = Append(dialDone, [who |-> who, counter |-> sessionCounter,
                                  seq |-> None])

\* The position in dialDone of the oldest call of who that has no seq yet.
DialOf(who) ==
    CHOOSE i \in 1..Len(dialDone) :
        /\ dialDone[i].who = who /\ dialDone[i].seq = None
        /\ \A j \in 1..(i - 1) :
              ~(dialDone[j].who = who /\ dialDone[j].seq = None)

\* createSession, line 151: who goes on from its dial and takes seq s.
TakesSeq(who, s) ==
    dialDone' = [dialDone EXCEPT ![DialOf(who)].seq = s]

\* createSession, line 168: the call that made session s returns.
CreateSessionReturns(s) ==
    dialDone' = SelectSeq(dialDone, LAMBDA e : e.seq # s)

\* Mutant of AcquirerDial: the seq is taken before the dial, so a failed
\* dial has used one up.
AcquirerDialBurnsSeq(a) ==
    /\ apc[a] = "dial"
    /\ \E ok \in BOOLEAN :
         IF ok
           THEN /\ sessionCounter + PendingAdds < Cardinality(DOMAIN sess)
                /\ apc' = [apc EXCEPT ![a] = "add"]
                /\ DialReturns(a)
                /\ UNCHANGED <<ares, sessionCounter>>
           ELSE /\ sessionCounter + PendingAdds < Cardinality(DOMAIN sess)
                /\ sessionCounter' = sessionCounter + 1
                /\ apc' = [apc EXCEPT ![a] = "idle"]
                /\ ares' = [ares EXCEPT ![a] = "ErrCreateSession"]
                /\ UNCHANGED dialDone
    /\ UNCHANGED <<die, idleSession, sessions, cfg, now, sessVars, asess,
                   asyncClose, closeVars, tickVars, cDial, cAdd, cReg, cIns,
                   lastReturned, auxVars>>

\* createSession, c.dialOut(ctx): succeeds or fails.  The sessions one
\* Client creates are capped by the seqs the model keeps.
AcquirerDial(a) ==
    /\ apc[a] = "dial"
    /\ \E ok \in BOOLEAN :
         IF ok
           THEN /\ sessionCounter + PendingAdds < Cardinality(DOMAIN sess)
                /\ apc' = [apc EXCEPT ![a] = "add"]
                /\ DialReturns(a)
                /\ UNCHANGED ares
           ELSE /\ apc' = [apc EXCEPT ![a] = "idle"]
                /\ ares' = [ares EXCEPT ![a] = "ErrCreateSession"]
                /\ UNCHANGED dialDone
    /\ UNCHANGED <<clientVars, now, sessVars, asess, asyncClose, closeVars,
                   tickVars, cDial, cAdd, cReg, cIns, lastReturned, auxVars>>

\* Mutant of NewSession: the seq is read from the counter and the counter
\* is left as it was.
NewSessionNoAdd(s) ==
    /\ sessionCounter' = sessionCounter
    /\ sess' = [sess EXCEPT ![s] = "new"]
    /\ createdAt' = [createdAt EXCEPT ![s] = now]
    /\ bornCancelled' = IF die THEN bornCancelled \cup {s} ELSE bornCancelled

\* createSession, lines 150-152: session.seq = c.sessionCounter.Add(1) and
\* session.createdAt = time.Now().
NewSession(s) ==
    /\ sessionCounter' = s
    /\ sess' = [sess EXCEPT ![s] = "new"]
    /\ createdAt' = [createdAt EXCEPT ![s] = now]
    /\ bornCancelled' = IF die THEN bornCancelled \cup {s} ELSE bornCancelled

\* Mutant of AcquirerAdd: the seq is the size of the registry plus one.
AcquirerAddFromRegistry(a) ==
    /\ apc[a] = "add"
    /\ NewSession(Cardinality(sessions) + 1)
    /\ TakesSeq(a, Cardinality(sessions) + 1)
    /\ asess' = [asess EXCEPT ![a] = Cardinality(sessions) + 1]
    /\ apc' = [apc EXCEPT ![a] = "register"]
    /\ UNCHANGED <<die, idleSession, sessions, cfg, now, idleSince, hookRuns,
                   ares, asyncClose, closeVars, tickVars, cDial, cAdd, cReg,
                   cIns, lastReturned, auxVars>>

\* createSession of CreateStream, lines 150-152.
AcquirerAdd(a) ==
    /\ apc[a] = "add"
    /\ NewSession(sessionCounter + 1)
    /\ TakesSeq(a, sessionCounter + 1)
    /\ asess' = [asess EXCEPT ![a] = sessionCounter + 1]
    /\ apc' = [apc EXCEPT ![a] = "register"]
    /\ UNCHANGED <<die, idleSession, sessions, cfg, now, idleSince, hookRuns,
                   ares, asyncClose, closeVars, tickVars, cDial, cAdd, cReg,
                   cIns, lastReturned, auxVars>>

\* createSession, lines 163-167: register under sessionsLock, session.Run().
RegisterSession(s) ==
    /\ sessions' = sessions \cup {s}
    /\ sess' = [sess EXCEPT ![s] = "running"]
    /\ CreateSessionReturns(s)

AcquirerRegister(a) ==
    /\ apc[a] = "register"
    /\ RegisterSession(asess[a])
    /\ apc' = [apc EXCEPT ![a] = "open"]
    /\ UNCHANGED <<die, sessionCounter, idleSession, cfg, now, createdAt,
                   idleSince, bornCancelled, hookRuns, asess, ares, asyncClose,
                   closeVars, tickVars, cDial, cAdd, cReg, cIns, lastReturned,
                   auxVars>>

\* Mutant of AcquirerOpenStream: on failure the error is returned and the
\* session is left open.
AcquirerOpenStreamNoClose(a) ==
    /\ apc[a] = "open"
    /\ \E ok \in OpenStreamOutcomes(asess[a]) :
         IF ok
           THEN /\ apc' = [apc EXCEPT ![a] = "stream"]
                /\ ares' = [ares EXCEPT ![a] = "stream"]
                /\ UNCHANGED <<asess, openFailed>>
           ELSE /\ apc' = [apc EXCEPT ![a] = "idle"]
                /\ ares' = [ares EXCEPT ![a] = "ErrCreateStream"]
                /\ asess' = [asess EXCEPT ![a] = None]
                /\ openFailed' = openFailed \cup {asess[a]}
    /\ UNCHANGED <<clientVars, now, sessVars, asyncClose, closeVars, tickVars,
                   creatorVars, lastReturned, configVars, lockVars>>

\* CreateStream, lines 108-112: session.OpenStream(); on failure
\* session.Close() and the error.
AcquirerOpenStream(a) ==
    /\ apc[a] = "open"
    /\ \E ok \in OpenStreamOutcomes(asess[a]) :
         IF ok
           THEN /\ apc' = [apc EXCEPT ![a] = "stream"]
                /\ ares' = [ares EXCEPT ![a] = "stream"]
                /\ UNCHANGED <<sess, asess, lastReturned, openFailed>>
           ELSE /\ openFailed' = openFailed \cup {asess[a]}
                /\ IF SessionCloseWins(asess[a])
                     THEN /\ SessionMarkClosed(asess[a])
                          /\ apc' = [apc EXCEPT ![a] = "closing"]
                          /\ lastReturned' = None
                          /\ UNCHANGED <<ares, asess>>
                     ELSE /\ apc' = [apc EXCEPT ![a] = "idle"]
                          /\ ares' = [ares EXCEPT ![a] = "ErrCreateStream"]
                          /\ asess' = [asess EXCEPT ![a] = None]
                          /\ UNCHANGED <<sess, lastReturned>>
    /\ UNCHANGED <<clientVars, now, createdAt, idleSince, bornCancelled,
                   hookRuns, asyncClose, closeVars, tickVars, creatorVars,
                   configVars, lockVars>>

\* session.Close() of line 110 returns once the death hook has run.
AcquirerCloseReturns(a) ==
    /\ apc[a] = "closing"
    /\ sess[asess[a]] = "dead"
    /\ apc' = [apc EXCEPT ![a] = "idle"]
    /\ ares' = [ares EXCEPT ![a] = "ErrCreateStream"]
    /\ asess' = [asess EXCEPT ![a] = None]
    /\ UNCHANGED <<clientVars, now, sessVars, asyncClose, closeVars, tickVars,
                   creatorVars, lastReturned, auxVars>>

\* ------------------------------------------------------ stream.dieHook
\* The stream ends; line 116: if !session.IsClosed().
StreamHookIsClosed(a) ==
    /\ apc[a] = "stream"
    /\ IF IsClosed(asess[a])
         THEN /\ apc' = [apc EXCEPT ![a] = "idle"]
              /\ asess' = [asess EXCEPT ![a] = None]
         ELSE /\ apc' = [apc EXCEPT ![a] = "hookDie"]
              /\ UNCHANGED asess
    /\ ares' = [ares EXCEPT ![a] = "none"]
    /\ UNCHANGED <<clientVars, now, sessVars, asyncClose, closeVars, tickVars,
                   creatorVars, lastReturned, auxVars>>

\* Lines 117-121: the select on c.die.Done().
StreamHookSelect(a) ==
    /\ apc[a] = "hookDie"
    /\ IF die
         THEN /\ asyncClose' = asyncClose \cup {asess[a]}
              /\ apc' = [apc EXCEPT ![a] = "idle"]
              /\ asess' = [asess EXCEPT ![a] = None]
         ELSE /\ apc' = [apc EXCEPT ![a] = "hookInsert"]
              /\ UNCHANGED <<asyncClose, asess>>
    /\ UNCHANGED <<clientVars, now, sessVars, ares, closeVars, tickVars,
                   creatorVars, lastReturned, auxVars>>

\* Mutant of PoolInsert: the insert without session.idleSince = time.Now().
PoolInsertStale(s) ==
    /\ idleSince' = idleSince
    /\ idleSession' = idleSession \cup {Key(s)}

\* Lines 122-125: under idleSessionLock, idleSince = now and Insert.
PoolInsert(s) ==
    /\ idleSince' = [idleSince EXCEPT ![s] = now]
    /\ idleSession' = idleSession \cup {Key(s)}

StreamHookInsert(a) ==
    /\ apc[a] = "hookInsert"
    /\ PoolInsert(asess[a])
    /\ apc' = [apc EXCEPT ![a] = "idle"]
    /\ lastReturned' = asess[a]
    /\ asess' = [asess EXCEPT ![a] = None]
    /\ UNCHANGED <<die, sessionCounter, sessions, cfg, now, sess, createdAt,
                   bornCancelled, hookRuns, ares, asyncClose, closeVars,
                   tickVars, creatorVars, auxVars>>

\* --------------------------------------------------------- Client.Close
\* Line 172: c.dieCancel().
CloseCancel ==
    /\ kpc = "idle"
    /\ kCalls < MaxCloseCalls
    /\ die' = TRUE
    /\ kCalls' = kCalls + 1
    /\ kpc' = "snapshot"
    /\ UNCHANGED <<sessionCounter, idleSession, sessions, cfg, now, sessVars,
                   acqVars, asyncClose, kToClose, kCur, kFirst, tickVars,
                   creatorVars, lastReturned, auxVars>>

\* Mutant of CloseSnapshot: the copy without c.sessions = make(...).
CloseSnapshotKeepsRegistry ==
    /\ kpc = "snapshot"
    /\ kToClose' = sessions
    /\ kFirst' = IF kCalls = 1 THEN sessions ELSE kFirst
    /\ kpc' = "closing"
    /\ UNCHANGED <<clientVars, now, sessVars, acqVars, asyncClose, kCalls,
                   kCur, tickVars, creatorVars, lastReturned, auxVars>>

\* Lines 174-180: under sessionsLock, copy the registry and replace it by
\* an empty map.
CloseSnapshot ==
    /\ kpc = "snapshot"
    /\ kToClose' = sessions
    /\ sessions' = {}
    /\ kFirst' = IF kCalls = 1 THEN sessions ELSE kFirst
    /\ kpc' = "closing"
    /\ UNCHANGED <<die, sessionCounter, idleSession, cfg, now, sessVars,
                   acqVars, asyncClose, kCalls, kCur, tickVars, creatorVars,
                   lastReturned, auxVars>>

\* Lines 182-184: session.Close() of the next session of sessionToClose
\* (a map's iteration order is not fixed).
CloseSession ==
    /\ kpc = "closing"
    /\ \E s \in kToClose :
         /\ kToClose' = kToClose \ {s}
         /\ IF SessionCloseWins(s)
              THEN /\ SessionMarkClosed(s)
                   /\ kCur' = s
                   /\ kpc' = "inClose"
                   /\ lastReturned' = None
              ELSE UNCHANGED <<sess, kCur, kpc, lastReturned>>
    /\ UNCHANGED <<clientVars, now, createdAt, idleSince, bornCancelled,
                   hookRuns, acqVars, asyncClose, kCalls, kFirst, tickVars,
                   creatorVars, auxVars>>

\* session.Close() returns once the death hook has run.
CloseSessionReturns ==
    /\ kpc = "inClose"
    /\ sess[kCur] = "dead"
    /\ kpc' = "closing"
    /\ kCur' = None
    /\ UNCHANGED <<clientVars, now, sessVars, acqVars, asyncClose, kCalls,
                   kToClose, kFirst, tickVars, creatorVars, lastReturned,
                   auxVars>>

\* Line 186: return nil.
CloseReturn ==
    /\ kpc = "closing"
    /\ kToClose = {}
    /\ kpc' = "idle"
    /\ UNCHANGED <<clientVars, now, sessVars, acqVars, asyncClose, kCalls,
                   kToClose, kCur, kFirst, tickVars, creatorVars, lastReturned,
                   auxVars>>

\* -------------------------------------------------------------- cleanup
\* The skiplist's iteration order: ascending keys.
RECURSIVE SortedKeys(_)
SortedKeys(keys) ==
    IF keys = {} THEN <<>>
    ELSE <<MinKey(keys)>> \o SortedKeys(keys \ {MinKey(keys)})

\* Mutant of SessionLifetime: the offset is seq modulo twice the jitter's
\* seconds, taken as seconds.
SessionLifetimeInSeconds(c, s) ==
    IF c.connectionLifetimeJitter > 0
      THEN c.maxConnectionLifetime - c.connectionLifetimeJitter
             + (s % ((c.connectionLifetimeJitter \div Second) * 2)) * Second
      ELSE c.maxConnectionLifetime

\* Lines 227-233: the session's lifetime with its jitter.  jitterRange is
\* the jitter in clock units, and the offset is seq modulo twice that.
SessionLifetime(c, s) ==
    IF c.connectionLifetimeJitter > 0
      THEN c.maxConnectionLifetime - c.connectionLifetimeJitter
             + (s % (c.connectionLifetimeJitter * 2))
      ELSE c.maxConnectionLifetime

\* Mutant of IdleTimedOut: a session idle for exactly the timeout counts.
IdleTimedOutInclusive(c, t, since) == since <= t - c.idleSessionTimeout

\* Line 213: session.idleSince.Before(idleExpTime).
IdleTimedOut(c, t, since) == since < t - c.idleSessionTimeout

\* Mutant of IdleFloorReached: one more session is kept.
IdleFloorExceeded(c, idleActiveCount) == idleActiveCount > c.minIdleSession

\* Line 214: idleActiveCount >= c.minIdleSession.
IdleFloorReached(c, idleActiveCount) == idleActiveCount >= c.minIdleSession

\* Mutant of AgeFloorReached: one session fewer is kept.
AgeFloorReachedEarly(c, ageActiveCount) ==
    ageActiveCount + 1 >= c.minIdleSessionForAge

\* Line 237: ageActiveCount >= c.minIdleSessionForAge.
AgeFloorReached(c, ageActiveCount) == ageActiveCount >= c.minIdleSessionForAge

\* Mutant of AgeChecked: the age check runs with age rotation off as well.
AgeCheckedWhenOff(c, shouldCloseIdle) == ~shouldCloseIdle

\* Line 225: c.maxConnectionLifetime > 0 && !shouldCloseIdle.
AgeChecked(c, shouldCloseIdle) ==
    c.maxConnectionLifetime > 0 /\ ~shouldCloseIdle

\* Lines 205-253: the body of the loop for the session under key.
ScanSession(c, t, created, acc, key) ==
    LET s == SeqOf(key)
        timedOut == IdleTimedOut(c, t, acc.since[s])
        shouldCloseIdle == timedOut /\ IdleFloorReached(c, acc.idleActiveCount)
        aged == /\ AgeChecked(c, shouldCloseIdle)
                /\ t > created[s] + SessionLifetime(c, s)
        shouldCloseAge == aged /\ AgeFloorReached(c, acc.ageActiveCount)
    IN  [since |-> IF timedOut /\ ~shouldCloseIdle
                     THEN [acc.since EXCEPT ![s] = t] ELSE acc.since,
         idleActiveCount |-> IF shouldCloseIdle THEN acc.idleActiveCount
                             ELSE acc.idleActiveCount + 1,
         ageActiveCount |-> IF aged /\ ~shouldCloseAge
                              THEN acc.ageActiveCount + 1
                              ELSE acc.ageActiveCount,
         idleSessionsToClose |-> IF shouldCloseIdle
                                   THEN Append(acc.idleSessionsToClose, s)
                                   ELSE acc.idleSessionsToClose,
         ageSessionsToClose |-> IF shouldCloseAge
                                  THEN Append(acc.ageSessionsToClose, s)
                                  ELSE acc.ageSessionsToClose,
         pool |-> IF shouldCloseIdle \/ shouldCloseAge
                    THEN acc.pool \ {key} ELSE acc.pool]

RECURSIVE ScanFrom(_, _, _, _, _)
ScanFrom(c, t, created, acc, ks) ==
    IF ks = <<>> THEN acc
    ELSE ScanFrom(c, t, created, ScanSession(c, t, created, acc, Head(ks)),
                  Tail(ks))

\* Lines 194-256: the pass over the idle pool under idleSessionLock.
CleanupScan(c, t, created, since, pool) ==
    ScanFrom(c, t, created,
             [since |-> since, idleActiveCount |-> 0, ageActiveCount |-> 0,
              idleSessionsToClose |-> <<>>, ageSessionsToClose |-> <<>>,
              pool |-> pool],
             SortedKeys(pool))

\* Mutant of ToCreate: the deficit without the clamp to the rate.
ToCreateUnlimited(c, currentPoolSize) ==
    LET deficit == c.ensureIdleSession - currentPoolSize
    IN  IF c.ensureIdleSession > 0 /\ deficit > 0 THEN deficit ELSE 0

\* Lines 280-287: the number of proactive creators to spawn.
ToCreate(c, currentPoolSize) ==
    LET deficit == c.ensureIdleSession - currentPoolSize
    IN  IF c.ensureIdleSession > 0 /\ deficit > 0
          THEN IF /\ c.ensureIdleSessionCreateRate > 0
                  /\ deficit > c.ensureIdleSessionCreateRate
                 THEN c.ensureIdleSessionCreateRate
                 ELSE deficit
          ELSE 0

\* Proactive creators that have not finished.
Creators == cDial + cAdd + Cardinality(cReg) + Cardinality(cIns)

\* util.StartRoutine(c.die, interval, c.cleanup): the ticker calls cleanup
\* until c.die is done.
TickerFires == client /\ ~die

\* Mutant of CleanupAt: the pass goes over the registry.
CleanupAtRegistry(t) ==
    /\ tpc = "idle"
    /\ TickerFires
    /\ LET r == CleanupScan(cfg, t, createdAt, idleSince,
                            {Key(s) : s \in sessions})
       IN  /\ idleSince' = r.since
           /\ idleSession' = idleSession \cap r.pool
           /\ tToClose' = r.idleSessionsToClose \o r.ageSessionsToClose
           /\ tIdleN' = Len(r.idleSessionsToClose)
           /\ tPool' = Cardinality(idleSession \cap r.pool)
    /\ tpc' = "closing"
    /\ lastReturned' = None
    /\ UNCHANGED <<die, sessionCounter, sessions, cfg, sess, createdAt,
                   bornCancelled, hookRuns, acqVars, asyncClose, closeVars,
                   creatorVars, auxVars>>

\* Mutant of CleanupAt: the sessions to close are collected and left in
\* the idle pool.
CleanupAtKeepsMarked(t) ==
    /\ tpc = "idle"
    /\ TickerFires
    /\ LET r == CleanupScan(cfg, t, createdAt, idleSince, idleSession)
       IN  /\ idleSince' = r.since
           /\ idleSession' = idleSession
           /\ tToClose' = r.idleSessionsToClose \o r.ageSessionsToClose
           /\ tIdleN' = Len(r.idleSessionsToClose)
           /\ tPool' = Cardinality(r.pool)
    /\ tpc' = "closing"
    /\ lastReturned' = None
    /\ UNCHANGED <<die, sessionCounter, sessions, cfg, sess, createdAt,
                   bornCancelled, hookRuns, acqVars, asyncClose, closeVars,
                   creatorVars, auxVars>>

\* cleanup, lines 194-257, called when time.Now() is t: the pass over the
\* idle pool.
CleanupAt(t) ==
    /\ tpc = "idle"
    /\ TickerFires
    /\ LET r == CleanupScan(cfg, t, createdAt, idleSince, idleSession)
       IN  /\ idleSince' = r.since
           /\ idleSession' = r.pool
           /\ tToClose' = r.idleSessionsToClose \o r.ageSessionsToClose
           /\ tIdleN' = Len(r.idleSessionsToClose)
           /\ tPool' = Cardinality(r.pool)
    /\ tpc' = "closing"
    /\ lastReturned' = None
    /\ UNCHANGED <<die, sessionCounter, sessions, cfg, sess, createdAt,
                   bornCancelled, hookRuns, acqVars, asyncClose, closeVars,
                   creatorVars, auxVars>>

\* The ticker calls cleanup at any moment; the creators alive at once are
\* capped.
CleanupStart ==
    /\ Creators + cfg.ensureIdleSession <= MaxCreators
    /\ CleanupAt(now)
    /\ UNCHANGED now

\* Lines 272-277: session.Close() of the next session to close.
CleanupClose ==
    /\ tpc = "closing"
    /\ tToClose # <<>>
    /\ IF SessionCloseWins(Head(tToClose))
         THEN /\ SessionMarkClosed(Head(tToClose))
              /\ tpc' = "inClose"
              /\ UNCHANGED <<tToClose, tIdleN>>
         ELSE /\ tToClose' = Tail(tToClose)
              /\ tIdleN' = IF tIdleN > 0 THEN tIdleN - 1 ELSE 0
              /\ UNCHANGED <<sess, tpc>>
    /\ lastReturned' = None
    /\ UNCHANGED <<clientVars, now, createdAt, idleSince, bornCancelled,
                   hookRuns, acqVars, asyncClose, closeVars, tPool,
                   creatorVars, auxVars>>

\* session.Close() returns once the death hook has run.
CleanupCloseReturns ==
    /\ tpc = "inClose"
    /\ sess[Head(tToClose)] = "dead"
    /\ tToClose' = Tail(tToClose)
    /\ tIdleN' = IF tIdleN > 0 THEN tIdleN - 1 ELSE 0
    /\ tpc' = "closing"
    /\ lastReturned' = None
    /\ UNCHANGED <<clientVars, now, sessVars, acqVars, asyncClose, closeVars,
                   tPool, creatorVars, auxVars>>

\* Mutant of CleanupSpawn: one creator per cycle, whatever the deficit.
CleanupSpawnOne ==
    /\ tpc = "closing"
    /\ tToClose = <<>>
    /\ cDial' = cDial + (IF ToCreate(cfg, tPool) > 0 THEN 1 ELSE 0)
    /\ tPool' = 0
    /\ tpc' = "idle"
    /\ lastReturned' = None
    /\ UNCHANGED <<clientVars, now, sessVars, acqVars, asyncClose, closeVars,
                   tToClose, tIdleN, cAdd, cReg, cIns, dialDone, auxVars>>

\* Lines 279-315: spawn the proactive creators and return.
CleanupSpawn ==
    /\ tpc = "closing"
    /\ tToClose = <<>>
    /\ cDial' = cDial + ToCreate(cfg, tPool)
    /\ tPool' = 0
    /\ tpc' = "idle"
    /\ lastReturned' = None
    /\ UNCHANGED <<clientVars, now, sessVars, acqVars, asyncClose, closeVars,
                   tToClose, tIdleN, cAdd, cReg, cIns, dialDone, auxVars>>

\* --------------------------------------------------- proactive creators
\* Line 299, createSession: c.dialOut(ctx) succeeds, or fails and the
\* creator returns.
CreatorDial ==
    /\ cDial > 0
    /\ cDial' = cDial - 1
    /\ \E ok \in BOOLEAN :
         IF ok
           THEN /\ sessionCounter + PendingAdds < Cardinality(DOMAIN sess)
                /\ cAdd' = cAdd + 1
                /\ DialReturns(Proactive)
           ELSE UNCHANGED <<cAdd, dialDone>>
    /\ UNCHANGED <<clientVars, now, sessVars, acqVars, asyncClose, closeVars,
                   tickVars, cReg, cIns, lastReturned, auxVars>>

\* createSession, lines 150-152.
CreatorAdd ==
    /\ cAdd > 0
    /\ cAdd' = cAdd - 1
    /\ NewSession(sessionCounter + 1)
    /\ TakesSeq(Proactive, sessionCounter + 1)
    /\ cReg' = cReg \cup {sessionCounter + 1}
    /\ UNCHANGED <<die, idleSession, sessions, cfg, now, idleSince, hookRuns,
                   acqVars, asyncClose, closeVars, tickVars, cDial, cIns,
                   lastReturned, auxVars>>

\* createSession, lines 163-167.
CreatorRegister(s) ==
    /\ s \in cReg
    /\ RegisterSession(s)
    /\ cReg' = cReg \ {s}
    /\ cIns' = cIns \cup {s}
    /\ UNCHANGED <<die, sessionCounter, idleSession, cfg, now, createdAt,
                   idleSince, bornCancelled, hookRuns, acqVars, asyncClose,
                   closeVars, tickVars, cDial, cAdd, lastReturned, auxVars>>

\* Mutant of CreatorInsert: the creator returns without the insert.
CreatorInsertDrops(s) ==
    /\ s \in cIns
    /\ cIns' = cIns \ {s}
    /\ lastReturned' = None
    /\ UNCHANGED <<clientVars, now, sessVars, acqVars, asyncClose, closeVars,
                   tickVars, cDial, cAdd, cReg, dialDone, auxVars>>

\* Lines 306-309: under idleSessionLock, idleSince = now and Insert.
CreatorInsert(s) ==
    /\ s \in cIns
    /\ PoolInsert(s)
    /\ cIns' = cIns \ {s}
    /\ lastReturned' = None
    /\ UNCHANGED <<die, sessionCounter, sessions, cfg, now, sess, createdAt,
                   bornCancelled, hookRuns, acqVars, asyncClose, closeVars,
                   tickVars, cDial, cAdd, cReg, dialDone, auxVars>>

\* ------------------------------------------------------------ the clock
ClockStep == 31 * Second

Advance ==
    /\ now < MaxAdvance * ClockStep
    /\ now' = now + ClockStep
    /\ UNCHANGED <<clientVars, sessVars, acqVars, asyncClose, closeVars,
                   tickVars, creatorVars, lastReturned, auxVars>>

\* ------------------------------------------------------------ the locks
\* The threads of the lock model: a CreateStream call with its stream
\* hook, the ticker's cleanup, a proactive creator, a session that dies on
\* its own, and Client.Close.
Threads == {"CreateStream", "cleanup", "creator", "session", "Close"}
NoThread == "none"

\* The calls that go to the network.
NetCalls == {"dial", "open", "close"}

\* session.dieHook, lines 153-161: Lock, Remove, Unlock on
\* idleSessionLock, then Lock, delete, Unlock on sessionsLock.
DieHook == <<"LockIdle", "UnlockIdle", "LockSessions", "UnlockSessions">>

\* session.Close(): the caller that wins the dieOnce runs the death hook
\* before Close returns; any other returns at once.
SessionClose == {<<"close">> \o DieHook \o <<"ret">>, <<"close", "ret">>}

\* n calls of session.Close() in a row.
RECURSIVE Closes(_)
Closes(n) ==
    IF n = 0 THEN {<<>>}
    ELSE {c \o rest : c \in SessionClose, rest \in Closes(n - 1)}

\* getIdleSession, lines 133-142.
GetIdleSessionPath == <<"LockIdle", "UnlockIdle">>

\* stream.dieHook, lines 114-127: nothing when the session is closed,
\* go session.Close() when the Client is closed, else the insert under
\* idleSessionLock.
StreamHookPaths == {<<>>, <<"LockIdle", "UnlockIdle">>} \cup SessionClose

\* CreateStream, lines 90-131, with the stream's hook: the pop, the
\* createSession when the pool was empty (the dial and, when it succeeds,
\* the registration under sessionsLock), OpenStream, and session.Close()
\* when it fails.
CreateStreamPaths ==
    {GetIdleSessionPath \o cs \o <<"open", "ret">> \o after :
        cs \in {<<>>, <<"dial", "ret", "LockSessions", "UnlockSessions">>},
        after \in StreamHookPaths}
    \cup {GetIdleSessionPath \o <<"dial", "ret">>}

\* Mutant of CleanupPaths: the sessions are closed before the Unlock.
CleanupPathsLocked ==
    {<<"LockIdle">> \o c \o <<"UnlockIdle">> :
        c \in UNION {Closes(n) : n \in 0..MaxLockCloses}}

\* cleanup, lines 202-277: the pass under idleSessionLock, then the
\* session.Close() calls.
CleanupPaths ==
    {<<"LockIdle", "UnlockIdle">> \o c :
        c \in UNION {Closes(n) : n \in 0..MaxLockCloses}}

\* A proactive creator, lines 293-313: createSession, then the insert
\* under idleSessionLock.
CreatorPaths ==
    {<<"dial", "ret">>,
     <<"dial", "ret", "LockSessions", "UnlockSessions",
       "LockIdle", "UnlockIdle">>}

\* Mutant of ClosePaths: the sessions are closed before the Unlock.
ClosePathsLocked ==
    {<<"LockSessions">> \o c \o <<"UnlockSessions">> :
        c \in UNION {Closes(n) : n \in 0..MaxLockCloses}}

\* Client.Close, lines 171-187: the snapshot under sessionsLock, then the
\* session.Close() calls.
ClosePaths ==
    {<<"LockSessions", "UnlockSessions">> \o c :
        c \in UNION {Closes(n) : n \in 0..MaxLockCloses}}

\* Nobody holds a lock and no thread of the lock model runs.
NoLocks ==
    /\ idleSessionLock = NoThread
    /\ sessionsLock = NoThread
    /\ script = [t \in Threads |-> <<>>]
    /\ inCall = [t \in Threads |-> "none"]

\* The next thing thread t does.
NextOp(t) == IF script[t] = <<>> THEN "done" ELSE Head(script[t])

Proceed(t) == script' = [script EXCEPT ![t] = Tail(@)]

\* c.idleSessionLock.Lock(): blocks while the mutex is held.
LockIdle(t) ==
    /\ NextOp(t) = "LockIdle"
    /\ idleSessionLock = NoThread
    /\ idleSessionLock' = t
    /\ Proceed(t)
    /\ UNCHANGED <<clientVars, now, sessVars, acqVars, asyncClose, closeVars,
                   tickVars, creatorVars, lastReturned, historyVars,
                   configVars, sessionsLock, inCall>>

\* c.idleSessionLock.Unlock().
UnlockIdle(t) ==
    /\ NextOp(t) = "UnlockIdle"
    /\ idleSessionLock' = NoThread
    /\ Proceed(t)
    /\ UNCHANGED <<clientVars, now, sessVars, acqVars, asyncClose, closeVars,
                   tickVars, creatorVars, lastReturned, historyVars,
                   configVars, sessionsLock, inCall>>

\* c.sessionsLock.Lock(): blocks while the mutex is held.
LockSessions(t) ==
    /\ NextOp(t) = "LockSessions"
    /\ sessionsLock = NoThread
    /\ sessionsLock' = t
    /\ Proceed(t)
    /\ UNCHANGED <<clientVars, now, sessVars, acqVars, asyncClose, closeVars,
                   tickVars, creatorVars, lastReturned, historyVars,
                   configVars, idleSessionLock, inCall>>

\* c.sessionsLock.Unlock().
UnlockSessions(t) ==
    /\ NextOp(t) = "UnlockSessions"
    /\ sessionsLock' = NoThread
    /\ Proceed(t)
    /\ UNCHANGED <<clientVars, now, sessVars, acqVars, asyncClose, closeVars,
                   tickVars, creatorVars, lastReturned, historyVars,
                   configVars, idleSessionLock, inCall>>

\* Thread t calls c.dialOut, session.OpenStream or session.Close.
NetCall(t) ==
    /\ NextOp(t) \in NetCalls
    /\ inCall' = [inCall EXCEPT ![t] = NextOp(t)]
    /\ Proceed(t)
    /\ UNCHANGED <<clientVars, now, sessVars, acqVars, asyncClose, closeVars,
                   tickVars, creatorVars, lastReturned, historyVars,
                   configVars, idleSessionLock, sessionsLock>>

\* The call returns.
NetReturn(t) ==
    /\ NextOp(t) = "ret"
    /\ inCall' = [inCall EXCEPT ![t] = "none"]
    /\ Proceed(t)
    /\ UNCHANGED <<clientVars, now, sessVars, acqVars, asyncClose, closeVars,
                   tickVars, creatorVars, lastReturned, historyVars,
                   configVars, idleSessionLock, sessionsLock>>

\* -------------------------------------------------------- construction
\* Mutant of NewClient: the floors apply below 5 s only.
NewClientStrictFloor(config) ==
    [idleSessionCheckInterval |->
         IF config.IdleSessionCheckInterval < Second * 5
           THEN Second * 30 ELSE config.IdleSessionCheckInterval,
     idleSessionTimeout |->
         IF config.IdleSessionTimeout < Second * 5
           THEN Second * 30 ELSE config.IdleSessionTimeout,
     minIdleSession |-> config.MinIdleSession,
     ensureIdleSession |-> config.EnsureIdleSession,
     ensureIdleSessionCreateRate |-> config.EnsureIdleSessionCreateRate,
     minIdleSessionForAge |-> config.MinIdleSessionForAge,
     maxConnectionLifetime |-> config.MaxConnectionLifetime,
     connectionLifetimeJitter |-> config.ConnectionLifetimeJitter]

\* NewClient, lines 62-82: the fields copied from the config, with the
\* floors of the check interval and of the idle timeout.
NewClient(config) ==
    [idleSessionCheckInterval |->
         IF config.IdleSessionCheckInterval <= Second * 5
           THEN Second * 30 ELSE config.IdleSessionCheckInterval,
     idleSessionTimeout |->
         IF config.IdleSessionTimeout <= Second * 5
           THEN Second * 30 ELSE config.IdleSessionTimeout,
     minIdleSession |-> config.MinIdleSession,
     ensureIdleSession |-> config.EnsureIdleSession,
     ensureIdleSessionCreateRate |-> config.EnsureIdleSessionCreateRate,
     minIdleSessionForAge |-> config.MinIdleSessionForAge,
     maxConnectionLifetime |-> config.MaxConnectionLifetime,
     connectionLifetimeJitter |-> config.ConnectionLifetimeJitter]

\* The configuration of the interleaving model: a proactive target of one
\* session, the default idle timeout, no age rotation.
PoolConfig ==
    [IdleSessionCheckInterval |-> 0, IdleSessionTimeout |-> 0,
     MinIdleSession |-> 0, EnsureIdleSession |-> 1,
     EnsureIdleSessionCreateRate |-> 0, MinIdleSessionForAge |-> 0,
     MaxConnectionLifetime |-> 0, ConnectionLifetimeJitter |-> 0]

\* ------------------------------------------------------------ NewAnyTLS
\* NewAnyTLS, lines 141-145: tOption before the merge; none of the session
\* fields is set.
ZeroClientConfig ==
    [IdleSessionCheckInterval |-> 0, IdleSessionTimeout |-> 0,
     MinIdleSession |-> 0, EnsureIdleSession |-> 0,
     EnsureIdleSessionCreateRate |-> 0, MinIdleSessionForAge |-> 0,
     MaxConnectionLifetime |-> 0, ConnectionLifetimeJitter |-> 0]

\* Lines 148-158: the global config, when there is one.
ApplyGlobal(t, g) ==
    IF g # <<>>
      THEN [t EXCEPT
              !.IdleSessionCheckInterval = g[1].IdleSessionCheckInterval,
              !.IdleSessionTimeout = g[1].IdleSessionTimeout,
              !.MinIdleSession = g[1].MinIdleSession,
              !.EnsureIdleSession = g[1].EnsureIdleSession,
              !.EnsureIdleSessionCreateRate = g[1].EnsureIdleSessionCreateRate,
              !.MinIdleSessionForAge = g[1].MinIdleSessionForAge,
              !.MaxConnectionLifetime = g[1].MaxConnectionLifetime,
              !.ConnectionLifetimeJitter = g[1].ConnectionLifetimeJitter]
      ELSE t

\* Lines 161-170: the legacy per-proxy fields, each when it is > 0.
ApplyLegacy(t, o) ==
    [t EXCEPT
       !.IdleSessionCheckInterval =
           IF o.IdleSessionCheckInterval > 0
             THEN o.IdleSessionCheckInterval * Second ELSE @,
       !.IdleSessionTimeout =
           IF o.IdleSessionTimeout > 0
             THEN o.IdleSessionTimeout * Second ELSE @,
       !.MinIdleSession =
           IF o.MinIdleSession > 0 THEN o.MinIdleSession ELSE @]

\* Lines 173-199: the fields of SessionOverride that are not nil.
ApplyOverride(t, o) ==
    IF o.SessionOverride # <<>>
      THEN LET override == o.SessionOverride[1]
           IN  [t EXCEPT
                  !.EnsureIdleSession =
                      IF override.EnsureIdleSession # <<>>
                        THEN override.EnsureIdleSession[1] ELSE @,
                  !.MinIdleSession =
                      IF override.MinIdleSession # <<>>
                        THEN override.MinIdleSession[1] ELSE @,
                  !.MinIdleSessionForAge =
                      IF override.MinIdleSessionForAge # <<>>
                        THEN override.MinIdleSessionForAge[1] ELSE @,
                  !.EnsureIdleSessionCreateRate =
                      IF override.EnsureIdleSessionCreateRate # <<>>
                        THEN override.EnsureIdleSessionCreateRate[1] ELSE @,
                  !.MaxConnectionLifetime =
                      IF override.MaxConnectionLifetime # <<>>
                        THEN override.MaxConnectionLifetime[1] * Second
                        ELSE @,
                  !.ConnectionLifetimeJitter =
                      IF override.ConnectionLifetimeJitter # <<>>
                        THEN override.ConnectionLifetimeJitter[1] * Second
                        ELSE @,
                  !.IdleSessionTimeout =
                      IF override.IdleSessionTimeout # <<>>
                        THEN override.IdleSessionTimeout[1] * Second ELSE @,
                  !.IdleSessionCheckInterval =
                      IF override.IdleSessionCheckInterval # <<>>
                        THEN override.IdleSessionCheckInterval[1] * Second
                        ELSE @]
      ELSE t

\* Mutant of MergeConfig: the legacy fields are applied after the
\* overrides.
MergeConfigLegacyLast(g, o) ==
    ApplyLegacy(ApplyOverride(ApplyGlobal(ZeroClientConfig, g), o), o)

\* Lines 141-199: the global config, then the legacy fields, then the
\* overrides.
MergeConfig(g, o) ==
    ApplyOverride(ApplyLegacy(ApplyGlobal(ZeroClientConfig, g), o), o)

\* The AnyTLSOption that sets every field of config through
\* SessionOverride, with no legacy field (durations in whole seconds).
OptionOf(config) ==
    [IdleSessionCheckInterval |-> 0, IdleSessionTimeout |-> 0,
     MinIdleSession |-> 0,
     SessionOverride |->
       <<[EnsureIdleSession |-> <<config.EnsureIdleSession>>,
          MinIdleSession |-> <<config.MinIdleSession>>,
          MinIdleSessionForAge |-> <<config.MinIdleSessionForAge>>,
          EnsureIdleSessionCreateRate |->
              <<config.EnsureIdleSessionCreateRate>>,
          MaxConnectionLifetime |->
              <<config.MaxConnectionLifetime \div Second>>,
          ConnectionLifetimeJitter |->
              <<config.ConnectionLifetimeJitter \div Second>>,
          IdleSessionTimeout |-> <<config.IdleSessionTimeout \div Second>>,
          IdleSessionCheckInterval |->
              <<config.IdleSessionCheckInterval \div Second>>]>>]

\* NewAnyTLS has returned for a proxy whose merged config is config.
Built(config) ==
    /\ globalAnyTLSSessionConfig = <<>>
    /\ option = OptionOf(config)
    /\ tOption = config
    /\ cfg = NewClient(config)
    /\ client = TRUE

Init ==
    /\ die = FALSE
    /\ sessionCounter = 0
    /\ idleSession = {}
    /\ sessions = {}
    /\ Built(PoolConfig)
    /\ now = 0
    /\ sess = [s \in Seqs |-> "none"]
    /\ createdAt = [s \in Seqs |-> 0]
    /\ idleSince = [s \in Seqs |-> 0]
    /\ bornCancelled = {}
    /\ hookRuns = [s \in Seqs |-> 0]
    /\ apc = [a \in Acquirers |-> "idle"]
    /\ asess = [a \in Acquirers |-> None]
    /\ ares = [a \in Acquirers |-> "none"]
    /\ asyncClose = {}
    /\ kpc = "idle"
    /\ kCalls = 0
    /\ kToClose = {}
    /\ kCur = None
    /\ kFirst = {}
    /\ tpc = "idle"
    /\ tToClose = <<>>
    /\ tIdleN = 0
    /\ tPool = 0
    /\ cDial = 0
    /\ cAdd = 0
    /\ cReg = {}
    /\ cIns = {}
    /\ dialDone = <<>>
    /\ lastReturned = None
    /\ openFailed = {}
    /\ NoLocks

Next ==
    \/ \E a \in Acquirers : CreateStreamEnter(a)
    \/ \E a \in Acquirers : GetIdleSession(a)
    \/ \E a \in Acquirers : AcquirerDial(a)
    \/ \E a \in Acquirers : AcquirerAdd(a)
    \/ \E a \in Acquirers : AcquirerRegister(a)
    \/ \E a \in Acquirers : AcquirerOpenStream(a)
    \/ \E a \in Acquirers : AcquirerCloseReturns(a)
    \/ \E a \in Acquirers : StreamHookIsClosed(a)
    \/ \E a \in Acquirers : StreamHookSelect(a)
    \/ \E a \in Acquirers : StreamHookInsert(a)
    \/ \E s \in Seqs : SessionDies(s)
    \/ \E s \in Seqs : AsyncSessionClose(s)
    \/ \E s \in Seqs : SessionDieHookIdle(s)
    \/ \E s \in Seqs : SessionDieHookRegistry(s)
    \/ CloseCancel
    \/ CloseSnapshot
    \/ CloseSession
    \/ CloseSessionReturns
    \/ CloseReturn
    \/ CleanupStart
    \/ CleanupClose
    \/ CleanupCloseReturns
    \/ CleanupSpawn
    \/ CreatorDial
    \/ CreatorAdd
    \/ \E s \in Seqs : CreatorRegister(s)
    \/ \E s \in Seqs : CreatorInsert(s)
    \/ Advance

Spec == Init /\ [][Next]_vars

\* ==================================================== maintenance alone
\* The maintenance goroutine and its proactive creators with no caller of
\* CreateStream or Close: the ticker fires every idleSessionCheckInterval
\* and, as long as the creators of one cycle finish within the interval,
\* finds none of them alive.
MaintSeqs == 1..(MaxIdleAtStart + MaxCreated)

\* util.StartRoutine: the ticker fires one interval after the last firing
\* and cleanup reads time.Now() at that instant.
TickerCleanup ==
    /\ Creators = 0
    /\ now < MaxTicks * cfg.idleSessionCheckInterval
    /\ now' = now + cfg.idleSessionCheckInterval
    /\ CleanupAt(now')

\* Nobody calls CreateStream or Close, and no cleanup is running.
NoCallers ==
    /\ die = FALSE
    /\ bornCancelled = {}
    /\ hookRuns = [s \in MaintSeqs |-> 0]
    /\ apc = [a \in Acquirers |-> "idle"]
    /\ asess = [a \in Acquirers |-> None]
    /\ ares = [a \in Acquirers |-> "none"]
    /\ asyncClose = {}
    /\ kpc = "idle"
    /\ kCalls = 0
    /\ kToClose = {}
    /\ kCur = None
    /\ kFirst = {}
    /\ tpc = "idle"
    /\ tToClose = <<>>
    /\ tIdleN = 0
    /\ tPool = 0
    /\ cDial = 0
    /\ cAdd = 0
    /\ cReg = {}
    /\ cIns = {}
    /\ dialDone = <<>>
    /\ lastReturned = None
    /\ openFailed = {}
    /\ NoLocks

\* The configurations of a Client under maintenance: the default check
\* interval and idle timeout, the two floors, age rotation off, on, and on
\* with jitter, and the proactive target with its rate.
TickConfigs ==
    {[IdleSessionCheckInterval |-> 0, IdleSessionTimeout |-> 0,
      MinIdleSession |-> m, EnsureIdleSession |-> er[1],
      EnsureIdleSessionCreateRate |-> er[2], MinIdleSessionForAge |-> k,
      MaxConnectionLifetime |-> lj[1], ConnectionLifetimeJitter |-> lj[2]] :
        m \in 0..2, k \in 0..2,
        lj \in {<<0, 0>>, <<100 * Second, 0>>, <<100 * Second, 10 * Second>>},
        er \in {<<0, 0>>, <<2, 0>>, <<MaxEnsure, 1>>, <<MaxEnsure, 2>>}}

\* When the sessions idle at the start were created (105 s, 90.5 s and 50 s
\* before the first firing of the ticker at 30 s) and when they became idle
\* (40 s and 30 s before it).
CreatedTimes == {0 - 75 * Second, 0 - 60 * Second - Second \div 2, 0 - 20 * Second}
SinceTimes == {0 - 10 * Second, 0}

\* The Client has run for a while: sessions 1..sessionCounter are running
\* and idle in the pool, created in the order of their seqs.
InitTick ==
    /\ NoCallers
    /\ \E c \in TickConfigs : Built(c)
    /\ now = 0
    /\ sessionCounter \in 0..MaxIdleAtStart
    /\ sessions = 1..sessionCounter
    /\ idleSession = {Key(s) : s \in 1..sessionCounter}
    /\ sess = [s \in MaintSeqs |-> IF s <= sessionCounter THEN "running"
                                                           ELSE "none"]
    /\ createdAt \in {f \in [MaintSeqs -> CreatedTimes \cup {0}] :
                        /\ \A s \in MaintSeqs :
                              (s <= sessionCounter) <=> (f[s] \in CreatedTimes)
                        /\ \A s \in 2..sessionCounter : f[s - 1] <= f[s]}
    /\ idleSince \in {f \in [MaintSeqs -> SinceTimes] :
                        \A s \in MaintSeqs : s > sessionCounter => f[s] = 0}

NextTick ==
    \/ TickerCleanup
    \/ CleanupClose
    \/ CleanupCloseReturns
    \/ CleanupSpawn
    \/ CreatorDial
    \/ CreatorAdd
    \/ \E s \in MaintSeqs : CreatorRegister(s)
    \/ \E s \in MaintSeqs : CreatorInsert(s)
    \/ \E s \in MaintSeqs : SessionDieHookIdle(s)
    \/ \E s \in MaintSeqs : SessionDieHookRegistry(s)

SpecTick == InitTick /\ [][NextTick]_vars

\* The ramp of the proactive pool: a new Client with an empty pool, a
\* proactive target with a rate > 0, the default check interval or one of
\* 60 s, and the idle floor at 0 or at the target.
RampConfigs ==
    {[IdleSessionCheckInterval |-> i, IdleSessionTimeout |-> 0,
      MinIdleSession |-> m, EnsureIdleSession |-> e,
      EnsureIdleSessionCreateRate |-> r, MinIdleSessionForAge |-> 0,
      MaxConnectionLifetime |-> 0, ConnectionLifetimeJitter |-> 0] :
        i \in {0, 60 * Second}, m \in {0, MaxEnsure}, e \in 1..MaxEnsure,
        r \in 1..2}

InitRamp ==
    /\ NoCallers
    /\ \E c \in RampConfigs : Built(c)
    /\ now = 0
    /\ sessionCounter = 0
    /\ sessions = {}
    /\ idleSession = {}
    /\ sess = [s \in MaintSeqs |-> "none"]
    /\ createdAt = [s \in MaintSeqs |-> 0]
    /\ idleSince = [s \in MaintSeqs |-> 0]

\* Line 299: the creator's createSession succeeds.
CreatorDialSucceeds == CreatorDial /\ cAdd' = cAdd + 1

NextRamp ==
    \/ TickerCleanup
    \/ CleanupClose
    \/ CleanupCloseReturns
    \/ CleanupSpawn
    \/ CreatorDialSucceeds
    \/ CreatorAdd
    \/ \E s \in MaintSeqs : CreatorRegister(s)
    \/ \E s \in MaintSeqs : CreatorInsert(s)
    \/ \E s \in MaintSeqs : SessionDieHookIdle(s)
    \/ \E s \in MaintSeqs : SessionDieHookRegistry(s)

SpecRamp == InitRamp /\ [][NextRamp]_vars

\* ------------------------------------------------------- pool recovery
\* The ticker goes on firing after the clock of the model has stopped at
\* MaxTicks intervals: the later cleanups read the same time, so that no
\* further session times out.
TickerCleanupLate ==
    /\ Creators = 0
    /\ now >= MaxTicks * cfg.idleSessionCheckInterval
    /\ CleanupAt(now)
    /\ UNCHANGED now

\* A proactive target of 1 or 2 with the rate off or 1, the default check
\* interval or one of 60 s, the idle floor at 0 or at the target.
RecoverConfigs ==
    {[IdleSessionCheckInterval |-> i, IdleSessionTimeout |-> 0,
      MinIdleSession |-> m * e, EnsureIdleSession |-> e,
      EnsureIdleSessionCreateRate |-> r, MinIdleSessionForAge |-> 0,
      MaxConnectionLifetime |-> 0, ConnectionLifetimeJitter |-> 0] :
        i \in {0, 60 * Second}, m \in 0..1, e \in 1..2, r \in 0..1}

InitRecover ==
    /\ NoCallers
    /\ \E c \in RecoverConfigs : Built(c)
    /\ now = 0
    /\ sessionCounter = 0
    /\ sessions = {}
    /\ idleSession = {}
    /\ sess = [s \in MaintSeqs |-> "none"]
    /\ createdAt = [s \in MaintSeqs |-> 0]
    /\ idleSince = [s \in MaintSeqs |-> 0]

NextRecover ==
    \/ TickerCleanup
    \/ TickerCleanupLate
    \/ CleanupClose
    \/ CleanupCloseReturns
    \/ CleanupSpawn
    \/ CreatorDial
    \/ CreatorAdd
    \/ \E s \in MaintSeqs : CreatorRegister(s)
    \/ \E s \in MaintSeqs : CreatorInsert(s)
    \/ \E s \in MaintSeqs : SessionDieHookIdle(s)
    \/ \E s \in MaintSeqs : SessionDieHookRegistry(s)

\* The ticker keeps firing until c.die is done, every goroutine that can
\* take a step takes it, a dial returns (it has a timeout of 30 s), and a
\* dial that is tried again and again succeeds in the end.
FairRecover ==
    /\ WF_vars(TickerCleanup \/ TickerCleanupLate)
    /\ WF_vars(CleanupClose)
    /\ WF_vars(CleanupCloseReturns)
    /\ WF_vars(CleanupSpawn)
    /\ WF_vars(CreatorDial)
    /\ SF_vars(CreatorDialSucceeds)
    /\ WF_vars(CreatorAdd)
    /\ WF_vars(\E s \in MaintSeqs : CreatorRegister(s))
    /\ WF_vars(\E s \in MaintSeqs : CreatorInsert(s))
    /\ WF_vars(\E s \in MaintSeqs : SessionDieHookIdle(s))
    /\ WF_vars(\E s \in MaintSeqs : SessionDieHookRegistry(s))

SpecRecover == InitRecover /\ [][NextRecover]_vars /\ FairRecover

\* -------------------------------------------------- overlapping creators
\* The ticker fires while creators of earlier cleanups are still running
\* (a creator's dial has up to 30 s, line 296, and the goroutine is
\* scheduled freely); the creators alive at once are capped.
TickerCleanupOverlap ==
    /\ Creators + cfg.ensureIdleSession <= MaxOverlap
    /\ now < MaxTicks * cfg.idleSessionCheckInterval
    /\ now' = now + cfg.idleSessionCheckInterval
    /\ CleanupAt(now')

\* A proactive target of 1 or 2 with the rate off or 1, the default check
\* interval or one of 6 s, no floors.
OverlapConfigs ==
    {[IdleSessionCheckInterval |-> i, IdleSessionTimeout |-> 0,
      MinIdleSession |-> 0, EnsureIdleSession |-> e,
      EnsureIdleSessionCreateRate |-> r, MinIdleSessionForAge |-> 0,
      MaxConnectionLifetime |-> 0, ConnectionLifetimeJitter |-> 0] :
        i \in {0, 6 * Second}, e \in 1..2, r \in 0..1}

InitOverlap ==
    /\ NoCallers
    /\ \E c \in OverlapConfigs : Built(c)
    /\ now = 0
    /\ sessionCounter = 0
    /\ sessions = {}
    /\ idleSession = {}
    /\ sess = [s \in MaintSeqs |-> "none"]
    /\ createdAt = [s \in MaintSeqs |-> 0]
    /\ idleSince = [s \in MaintSeqs |-> 0]

NextOverlap ==
    \/ TickerCleanupOverlap
    \/ CleanupClose
    \/ CleanupCloseReturns
    \/ CleanupSpawn
    \/ CreatorDial
    \/ CreatorAdd
    \/ \E s \in MaintSeqs : CreatorRegister(s)
    \/ \E s \in MaintSeqs : CreatorInsert(s)
    \/ \E s \in MaintSeqs : SessionDieHookIdle(s)
    \/ \E s \in MaintSeqs : SessionDieHookRegistry(s)

SpecOverlap == InitOverlap /\ [][NextOverlap]_vars

\* ------------------------------------------------- callers and the tick
\* The seqs of a Client that had up to MaxIdleAtStart sessions and makes
\* one more.
BusySeqs == 1..(MaxIdleAtStart + 1)

\* Age rotation off or at 100 s, the idle floor at 0 or 1, no proactive
\* target.
BusyConfigs ==
    {[IdleSessionCheckInterval |-> 0, IdleSessionTimeout |-> 0,
      MinIdleSession |-> m, EnsureIdleSession |-> 0,
      EnsureIdleSessionCreateRate |-> 0, MinIdleSessionForAge |-> 0,
      MaxConnectionLifetime |-> l, ConnectionLifetimeJitter |-> 0] :
        m \in 0..1, l \in {0, 100 * Second}}

\* The Client has run for a while: sessions 1..sessionCounter are running
\* and idle in the pool, 105 s or 50 s old at the first firing of the
\* ticker and idle for 40 s then; the callers are about to call
\* CreateStream.
Preloaded(callers, configs) ==
    /\ die = FALSE
    /\ bornCancelled = {}
    /\ hookRuns = [s \in BusySeqs |-> 0]
    /\ apc = [a \in callers |-> "idle"]
    /\ asess = [a \in callers |-> None]
    /\ ares = [a \in callers |-> "none"]
    /\ asyncClose = {}
    /\ kpc = "idle" /\ kCalls = 0 /\ kToClose = {} /\ kCur = None
    /\ kFirst = {}
    /\ tpc = "idle" /\ tToClose = <<>> /\ tIdleN = 0 /\ tPool = 0
    /\ cAdd = 0 /\ cReg = {} /\ cIns = {}
    /\ dialDone = <<>>
    /\ lastReturned = None
    /\ openFailed = {}
    /\ NoLocks
    /\ \E c \in configs : Built(c)
    /\ now = 0
    /\ sessionCounter \in 0..MaxIdleAtStart
    /\ sessions = 1..sessionCounter
    /\ idleSession = {Key(s) : s \in 1..sessionCounter}
    /\ sess = [s \in BusySeqs |-> IF s <= sessionCounter THEN "running"
                                                          ELSE "none"]
    /\ createdAt \in
         {f \in [BusySeqs -> {0 - 75 * Second, 0 - 20 * Second, 0}] :
             /\ \A s \in BusySeqs : (s <= sessionCounter) <=> (f[s] < 0)
             /\ \A s \in 2..sessionCounter : f[s - 1] <= f[s]}
    /\ idleSince = [s \in BusySeqs |->
                      IF s <= sessionCounter THEN 0 - 10 * Second ELSE 0]

InitBusy ==
    /\ Preloaded(Acquirers, BusyConfigs)
    /\ cDial = 0

NextBusy ==
    \/ \E a \in Acquirers : CreateStreamEnter(a)
    \/ \E a \in Acquirers : GetIdleSession(a)
    \/ \E a \in Acquirers : AcquirerDial(a)
    \/ \E a \in Acquirers : AcquirerAdd(a)
    \/ \E a \in Acquirers : AcquirerRegister(a)
    \/ \E a \in Acquirers : AcquirerOpenStream(a)
    \/ \E a \in Acquirers : AcquirerCloseReturns(a)
    \/ \E a \in Acquirers : StreamHookIsClosed(a)
    \/ \E a \in Acquirers : StreamHookSelect(a)
    \/ \E a \in Acquirers : StreamHookInsert(a)
    \/ \E s \in BusySeqs : SessionDieHookIdle(s)
    \/ \E s \in BusySeqs : SessionDieHookRegistry(s)
    \/ TickerCleanup
    \/ CleanupClose
    \/ CleanupCloseReturns
    \/ CleanupSpawn

SpecBusy == InitBusy /\ [][NextBusy]_vars

\* ------------------------------------------------- concurrent callers
\* Two CreateStream callers.
Callers == 1..NumCallers

\* The configuration of the callers' model: a proactive target of one.
\* A cleanup may just have spawned a creator; the ticker does not fire
\* again.
InitShare ==
    /\ Preloaded(Callers, {PoolConfig})
    /\ cDial \in 0..1

NextShare ==
    \/ \E a \in Callers : CreateStreamEnter(a)
    \/ \E a \in Callers : GetIdleSession(a)
    \/ \E a \in Callers : AcquirerDial(a)
    \/ \E a \in Callers : AcquirerAdd(a)
    \/ \E a \in Callers : AcquirerRegister(a)
    \/ \E a \in Callers : AcquirerOpenStream(a)
    \/ \E a \in Callers : AcquirerCloseReturns(a)
    \/ \E a \in Callers : StreamHookIsClosed(a)
    \/ \E a \in Callers : StreamHookSelect(a)
    \/ \E a \in Callers : StreamHookInsert(a)
    \/ \E s \in BusySeqs : SessionDieHookIdle(s)
    \/ \E s \in BusySeqs : SessionDieHookRegistry(s)
    \/ CreatorDial
    \/ CreatorAdd
    \/ \E s \in BusySeqs : CreatorRegister(s)
    \/ \E s \in BusySeqs : CreatorInsert(s)

SpecShare == InitShare /\ [][NextShare]_vars

\* ------------------------------------------------------- the lock model
\* A built Client with its threads about to run, each on one of its paths.
\* The state of the pool is left out: every path is taken with any pool.
InitLocks ==
    /\ die = FALSE
    /\ bornCancelled = {}
    /\ hookRuns = [s \in MaintSeqs |-> 0]
    /\ apc = [a \in Acquirers |-> "idle"]
    /\ asess = [a \in Acquirers |-> None]
    /\ ares = [a \in Acquirers |-> "none"]
    /\ asyncClose = {}
    /\ kpc = "idle" /\ kCalls = 0 /\ kToClose = {} /\ kCur = None
    /\ kFirst = {}
    /\ tpc = "idle" /\ tToClose = <<>> /\ tIdleN = 0 /\ tPool = 0
    /\ cDial = 0 /\ cAdd = 0 /\ cReg = {} /\ cIns = {}
    /\ dialDone = <<>>
    /\ lastReturned = None
    /\ openFailed = {}
    /\ Built(PoolConfig)
    /\ now = 0
    /\ sessionCounter = 0
    /\ sessions = {}
    /\ idleSession = {}
    /\ sess = [s \in MaintSeqs |-> "none"]
    /\ createdAt = [s \in MaintSeqs |-> 0]
    /\ idleSince = [s \in MaintSeqs |-> 0]
    /\ idleSessionLock = NoThread
    /\ sessionsLock = NoThread
    /\ inCall = [t \in Threads |-> "none"]
    /\ \E a \in CreateStreamPaths, b \in CleanupPaths, c \in CreatorPaths,
          d \in ClosePaths :
          script = [t \in Threads |->
                      CASE t = "CreateStream" -> a
                        [] t = "cleanup" -> b
                        [] t = "creator" -> c
                        [] t = "session" -> DieHook
                        [] t = "Close" -> d]

NextLocks ==
    \/ \E t \in Threads : LockIdle(t)
    \/ \E t \in Threads : UnlockIdle(t)
    \/ \E t \in Threads : LockSessions(t)
    \/ \E t \in Threads : UnlockSessions(t)
    \/ \E t \in Threads : NetCall(t)
    \/ \E t \in Threads : NetReturn(t)

SpecLocks == InitLocks /\ [][NextLocks]_vars

\* -------------------------------------------------- configuration model
\* The global configs: none, the zero config, and two configs with check
\* intervals and idle timeouts on both sides of the floor of 5 s.
GlobalConfigs ==
    {<<>>,
     <<ZeroClientConfig>>,
     <<[IdleSessionCheckInterval |-> 5 * Second + 1,
        IdleSessionTimeout |-> 60 * Second,
        MinIdleSession |-> 1, EnsureIdleSession |-> 1,
        EnsureIdleSessionCreateRate |-> 1, MinIdleSessionForAge |-> 1,
        MaxConnectionLifetime |-> 100 * Second,
        ConnectionLifetimeJitter |-> 10 * Second]>>,
     <<[IdleSessionCheckInterval |-> 60 * Second,
        IdleSessionTimeout |-> 5 * Second + 1,
        MinIdleSession |-> 2, EnsureIdleSession |-> 2,
        EnsureIdleSessionCreateRate |-> 0, MinIdleSessionForAge |-> 0,
        MaxConnectionLifetime |-> 0, ConnectionLifetimeJitter |-> 0]>>}

\* The fields of AnyTLSSessionOverride.
OverrideFields ==
    {"EnsureIdleSession", "MinIdleSession", "MinIdleSessionForAge",
     "EnsureIdleSessionCreateRate", "MaxConnectionLifetime",
     "ConnectionLifetimeJitter", "IdleSessionTimeout",
     "IdleSessionCheckInterval"}

\* The values an override sets: 0 in every field, or these (durations in
\* seconds).
OverrideValues ==
    [EnsureIdleSession |-> MaxEnsure, MinIdleSession |-> 4,
     MinIdleSessionForAge |-> 2, EnsureIdleSessionCreateRate |-> 2,
     MaxConnectionLifetime |-> 200, ConnectionLifetimeJitter |-> 20,
     IdleSessionTimeout |-> 5, IdleSessionCheckInterval |-> 45]

\* The overrides: nil, or a SessionOverride that sets no field, one field,
\* all fields but one, or all fields.
SessionOverrides ==
    {<<>>} \cup
    {<<[f \in OverrideFields |->
           IF f \in set THEN <<IF zero THEN 0 ELSE OverrideValues[f]>>
                        ELSE <<>>]>> :
        set \in {{}, OverrideFields}
                 \cup {{f} : f \in OverrideFields}
                 \cup {OverrideFields \ {f} : f \in OverrideFields},
        zero \in BOOLEAN}

\* The proxy options: each legacy field negative, 0 or positive (5 s is
\* the floor, 6 s is above it).
AnyTLSOptions ==
    {[IdleSessionCheckInterval |-> i, IdleSessionTimeout |-> t,
      MinIdleSession |-> m, SessionOverride |-> o] :
        i \in {0 - 1, 0, 5}, t \in {0 - 1, 0, 6}, m \in {0 - 1, 0, 3},
        o \in SessionOverrides}

\* Before NewAnyTLS: a global config may have been set, the proxy's options
\* are parsed, there is no Client.
InitConfig ==
    /\ NoCallers
    /\ globalAnyTLSSessionConfig \in GlobalConfigs
    /\ option \in AnyTLSOptions
    /\ tOption = ZeroClientConfig
    /\ client = FALSE
    /\ cfg = NewClient(ZeroClientConfig)
    /\ now = 0
    /\ sessionCounter = 0
    /\ sessions = {}
    /\ idleSession = {}
    /\ sess = [s \in MaintSeqs |-> "none"]
    /\ createdAt = [s \in MaintSeqs |-> 0]
    /\ idleSince = [s \in MaintSeqs |-> 0]

\* NewAnyTLS, lines 141-220: the merge, then anytls.NewClient with the
\* merged config, which starts the ticker.
NewAnyTLS ==
    /\ ~client
    /\ tOption' = MergeConfig(globalAnyTLSSessionConfig, option)
    /\ cfg' = NewClient(tOption')
    /\ client' = TRUE
    /\ UNCHANGED <<die, sessionCounter, idleSession, sessions, now, sessVars,
                   acqVars, asyncClose, closeVars, tickVars, creatorVars,
                   lastReturned, historyVars, globalAnyTLSSessionConfig,
                   option, lockVars>>

NextConfig ==
    \/ NewAnyTLS
    \/ NextTick

SpecConfig == InitConfig /\ [][NextConfig]_vars

\* ================================================================ claims
\* No goroutine is inside CreateStream, a stream hook, Close, cleanup, a
\* proactive creator or a session's death hook.
Quiescent ==
    /\ \A a \in Acquirers : apc[a] = "idle"
    /\ kpc = "idle"
    /\ tpc = "idle"
    /\ Creators = 0
    /\ asyncClose = {}
    /\ \A s \in Seqs : sess[s] \in {"none", "running", "dead"}

\* The acquirer's step is the pop of getIdleSession.
PopsSession(a) == apc[a] = "getIdle" /\ apc'[a] = "open"

MaxSeq(S) == CHOOSE s \in S : \A r \in S : r <= s

\* C1 (containment): in every state, every session of the idle pool is in
\* the session registry.
C1_Containment == IdleSeqs \subseteq sessions

\* C2 (no zombies): a session whose death hook has run is in neither the
\* idle pool nor the registry, in every later state.
C2_NoZombies ==
    \A s \in Seqs : hookRuns[s] > 0 => Key(s) \notin idleSession /\ s \notin sessions

\* C3: the session getIdleSession pops for CreateStream is not closed at
\* the moment of the pop.
C3_NeverHandsOutClosed ==
    [][\A a \in Acquirers : PopsSession(a) => ~IsClosed(asess'[a])]_vars

\* C4: once c.die is done, a CreateStream that starts returns
\* io.ErrClosedPipe at once: the caller never reaches getIdleSession, the
\* dial or the registration, and its step changes nothing of the Client or
\* of any session.
C4_ClosedPipeAfterClose ==
    [][\A a \in Acquirers :
          (die /\ apc[a] = "idle") =>
             /\ apc'[a] = "idle"
             /\ ares'[a] \in {ares[a], "ErrClosedPipe"}
             /\ (ares'[a] # ares[a] => UNCHANGED <<clientVars, sess, creatorVars>>)]_vars

C4_Witness == \E a \in Acquirers : die /\ apc[a] = "idle" /\ ares[a] = "ErrClosedPipe"

\* C5 (shutdown is complete): when Close has returned and nothing is in
\* flight, the registry and the idle pool are empty and every session ever
\* created is closed.
C5_ShutdownComplete ==
    (kCalls >= 1 /\ Quiescent) =>
       /\ sessions = {}
       /\ idleSession = {}
       /\ \A s \in Seqs : sess[s] # "none" => IsClosed(s)

\* C6: a proactive creator whose session was created after the
\* cancellation closes it and does not insert it into the idle pool.
C6_CreatorClosesAfterCancel ==
    [][\A s \in Seqs :
          (s \in cIns /\ s \notin cIns' /\ s \in bornCancelled) =>
             (Key(s) \notin idleSession' /\ sess'[s] # "running")]_vars

\* C7: no stream death hook inserts its session into the idle pool once
\* c.die is done.
C7_NoPoolingAfterCancel ==
    [][\A a \in Acquirers :
          die => ~(apc[a] = "hookInsert" /\ apc'[a] = "idle")]_vars

\* C8 (idempotent shutdown): a second Close leaves c.die done, finds none
\* of the first call's sessions to close again and, when it finds the
\* registry as the first call left it, changes neither the registry nor
\* the idle pool nor any session; every session registered at the first
\* call is closed when that call returns, its death hook runs at most
\* once, and exactly once when no death hook is in progress.
C8_IdempotentClose ==
    /\ [][die => die']_vars
    /\ [](kCalls = 2 => kToClose \cap kFirst = {})
    /\ [][(kCalls' = 2 /\ kpc' # kpc /\ sessions = {} /\ kToClose = {}) =>
             UNCHANGED <<die, sessions, idleSession, sess>>]_vars
    /\ []((kCalls >= 1 /\ kpc = "idle") => \A s \in kFirst : IsClosed(s))
    /\ [](\A s \in Seqs : hookRuns[s] <= 1)
    /\ []((kCalls >= 1 /\ kpc = "idle"
            /\ \A s \in Seqs : sess[s] \notin {"closed", "hookIdleDone"})
           => \A s \in kFirst : hookRuns[s] = 1)

C8_Witness == kCalls = 2 /\ kpc = "idle" /\ kFirst # {} /\ \A s \in kFirst : hookRuns[s] = 1

\* C9 (reuse-newest): the session a pop of getIdleSession takes has the
\* largest seq of the idle pool at that moment.
C9_ReuseNewest ==
    [][\A a \in Acquirers : PopsSession(a) => asess'[a] = MaxSeq(IdleSeqs)]_vars

\* A caller holds session 2, taken from the pool after it had been pooled,
\* while session 1 is idle.
C9_Witness ==
    \E a \in Acquirers :
       /\ apc[a] = "open" /\ asess[a] = 2 /\ idleSince[2] > 0
       /\ Key(1) \in idleSession

\* C10 as stated (warm path): the next CreateStream after a stream hook
\* pooled a session, with no cleanup step, no creator insert and no session
\* death in between, takes that same session.
C10_WarmPathSameSession ==
    [][\A a \in Acquirers :
          (apc[a] = "getIdle" /\ apc'[a] # "getIdle" /\ lastReturned # None) =>
             (apc'[a] = "open" /\ asess'[a] = lastReturned)]_vars

\* C10 amended: a stream hook that found its session open and the Client
\* not cancelled pools the session with idleSince = now; the next
\* CreateStream, with no cleanup and no session death in between, is
\* served from the pool without a dial, takes the idle session with the
\* largest seq, and so the returned session when no newer one is idle.
C10_WarmPath ==
    /\ [][\A a \in Acquirers :
             (apc[a] = "hookInsert" /\ apc'[a] # "hookInsert") =>
                /\ Key(asess[a]) \in idleSession'
                /\ idleSince'[asess[a]] = now
                /\ lastReturned' = asess[a]]_vars
    /\ [][\A a \in Acquirers :
             (apc[a] = "getIdle" /\ apc'[a] # "getIdle" /\ lastReturned # None) =>
                /\ apc'[a] = "open"
                /\ sessionCounter' = sessionCounter
                /\ asess'[a] = MaxSeq(IdleSeqs)
                /\ (lastReturned = MaxSeq(IdleSeqs) => asess'[a] = lastReturned)]_vars

\* A caller is about to pop while the session its stream hook just pooled,
\* after the clock advanced, is idle.
C10_Witness ==
    \E a \in Acquirers :
       /\ apc[a] = "getIdle" /\ lastReturned # None
       /\ Key(lastReturned) \in idleSession
       /\ idleSince[lastReturned] = now /\ now > 0

\* ------------------------------------------------------------ C11, C12
\* The createSession calls that hold a session with a seq and have not yet
\* registered it.
Holders == {i \in 1..Len(dialDone) : dialDone[i].seq # None}

\* C11: every session one Client creates, in CreateStream or in a proactive
\* creator, gets a seq of its own, and the seqs grow in the order they are
\* assigned: at any moment the seqs assigned so far are exactly
\* 1..sessionCounter (so the next one is larger than all of them), and no
\* two createSession calls in flight hold the same seq.
C11_UniqueSeq ==
    /\ \A s \in DOMAIN sess : (sess[s] # "none") <=> (s <= sessionCounter)
    /\ \A i, j \in Holders : i # j => dialDone[i].seq # dialDone[j].seq
    /\ Cardinality({s \in DOMAIN sess : sess[s] = "new"}) = Cardinality(Holders)

\* An acquirer and a proactive creator hold freshly made sessions at once.
C11_Witness ==
    /\ \E a \in Acquirers : apc[a] = "register"
    /\ cReg # {}

\* C12 as stated: seqs follow the order in which the dials returned; a
\* createSession call that has its seq was not overtaken, so no call whose
\* dial returned earlier is still without one or has a larger one.
C12_SeqFollowsDialOrder ==
    \A i, j \in 1..Len(dialDone) :
        (i < j /\ dialDone[j].seq # None)
            => (dialDone[i].seq # None /\ dialDone[i].seq < dialDone[j].seq)

\* C12, amended: seqs follow the order of the sessionCounter.Add calls; a
\* session's seq is larger than every seq that had been assigned when its
\* dial returned.
C12_SeqAfterEarlierAdds ==
    \A i \in Holders : dialDone[i].seq > dialDone[i].counter

\* A session took its seq after a dial that returned when an earlier
\* session already had one.
C12_Witness ==
    \E i \in Holders : dialDone[i].counter >= 1

\* ------------------------------------------------------------ C13 - C20
MinOf(a, b) == IF a <= b THEN a ELSE b
MaxOf(a, b) == IF a >= b THEN a ELSE b

\* A step that is cleanup's pass over the idle pool; it reads the clock as
\* now'.
ScanStep == tpc = "idle" /\ tpc' = "closing"

\* A step that ends a cleanup: the proactive creators are spawned.
SpawnStep == tpc = "closing" /\ tpc' = "idle"

\* The sessions cleanup still has to close, by the phase that marked them.
IdleClosed == {tToClose[i] : i \in 1..tIdleN}
AgeClosed == {tToClose[i] : i \in (tIdleN + 1)..Len(tToClose)}

\* The idle sessions that are idle for at most the idle timeout at time t.
WithinWindow(t) ==
    {s \in IdleSeqs : t - idleSince[s] <= cfg.idleSessionTimeout}

\* The idle sessions whose age at time t exceeds their lifetime.
PastLifetime(t) ==
    {s \in IdleSeqs : /\ cfg.maxConnectionLifetime > 0
                      /\ t - createdAt[s] > SessionLifetime(cfg, s)}

\* C13: in any tick, if at least min_idle_session idle sessions are within
\* the idle-timeout window when the tick starts, the idle phase closes none
\* of the sessions within the window.
C13_IdleFloor ==
    [][(ScanStep /\ Cardinality(WithinWindow(now')) >= cfg.minIdleSession)
          => WithinWindow(now') \cap IdleClosed' = {}]_vars

\* A pass has closed a session for idleness and has left in the pool, as
\* they were, at least min_idle_session >= 1 sessions within the window.
C13_Witness ==
    /\ tpc = "closing" /\ tIdleN >= 1 /\ cfg.minIdleSession >= 1
    /\ Cardinality({s \in IdleSeqs : /\ idleSince[s] # now
                                     /\ now - idleSince[s]
                                          <= cfg.idleSessionTimeout})
         >= cfg.minIdleSession

\* C14: in any tick, with A the number of idle sessions past their
\* lifetime at tick time, the age phase closes at most
\* A - min_idle_session_for_age sessions when A >= min_idle_session_for_age
\* and none when A < min_idle_session_for_age.
C14_AgeFloor ==
    [][ScanStep
          => LET A == Cardinality(PastLifetime(now'))
             IN  /\ A >= cfg.minIdleSessionForAge
                      => Cardinality(AgeClosed') <= A - cfg.minIdleSessionForAge
                 /\ A < cfg.minIdleSessionForAge => AgeClosed' = {}]_vars

\* A pass has closed a session for its age under a floor of at least one.
C14_Witness ==
    /\ tpc = "closing" /\ AgeClosed # {} /\ cfg.minIdleSessionForAge >= 1

\* C15: with age rotation off, when all N idle sessions are idle for longer
\* than the idle timeout and min_idle_session = m, one tick closes exactly
\* max(0, N - m) sessions and leaves min(N, m) in the pool: those with the
\* highest seqs, each with idleSince reset to the tick's time.
C15_IdleEviction ==
    [][(ScanStep /\ cfg.maxConnectionLifetime = 0 /\ WithinWindow(now') = {})
          => LET N == Cardinality(IdleSeqs)
                 m == cfg.minIdleSession
             IN  /\ Len(tToClose') = MaxOf(0, N - m)
                 /\ Cardinality(IdleClosed') = MaxOf(0, N - m)
                 /\ Cardinality(IdleSeqs') = MinOf(N, m)
                 /\ IdleSeqs' = IdleSeqs \ IdleClosed'
                 /\ \A s \in IdleSeqs', c \in IdleClosed' : s > c
                 /\ \A s \in IdleSeqs' : idleSince'[s] = now']_vars

\* Of two sessions idle for too long, a pass with min_idle_session = 1 has
\* closed session 1 and kept session 2, now idle since the tick.
C15_Witness ==
    /\ tpc = "closing" /\ cfg.maxConnectionLifetime = 0
    /\ cfg.minIdleSession = 1
    /\ tToClose = <<1>> /\ tIdleN = 1
    /\ IdleSeqs = {2} /\ idleSince[2] = now

\* C16: with min-idle-session-for-age = k > 0 and age rotation on, a tick
\* leaves at least min(k, size of the idle pool at its start) sessions in
\* the idle pool, whatever min-idle-session and the idle times.
C16_AgeFloorKeepsPool ==
    [][(ScanStep /\ cfg.maxConnectionLifetime > 0
                 /\ cfg.minIdleSessionForAge > 0)
          => Cardinality(IdleSeqs')
               >= MinOf(cfg.minIdleSessionForAge, Cardinality(IdleSeqs))]_vars

\* C17: a tick spawns no creator when ensure_idle_session = 0 or the
\* deficit is not positive, the deficit when the rate is 0 and
\* min(deficit, rate) when the rate is > 0, so at most max(rate, deficit);
\* the deficit is ensure_idle_session minus the size of the idle pool after
\* the pass has removed the sessions it marked.
C17_CreatorsPerTick ==
    /\ [][ScanStep => /\ tPool' = Cardinality(IdleSeqs')
                      /\ tPool' = Cardinality(IdleSeqs) - Len(tToClose')]_vars
    /\ [][SpawnStep
            => LET deficit == cfg.ensureIdleSession - tPool
                   rate == cfg.ensureIdleSessionCreateRate
                   spawned == cDial' - cDial
               IN  /\ spawned = IF cfg.ensureIdleSession = 0 \/ deficit <= 0
                                  THEN 0
                                  ELSE IF rate = 0 THEN deficit
                                       ELSE MinOf(deficit, rate)
                   /\ spawned <= MaxOf(rate, MaxOf(deficit, 0))]_vars

\* The first tick of a Client with target 3, rate 2 and an empty pool has
\* spawned two creators.
C17_Witness ==
    /\ tpc = "idle" /\ cDial = 2 /\ Creators = 2 /\ idleSession = {}
    /\ cfg.ensureIdleSession = 3 /\ cfg.ensureIdleSessionCreateRate = 2

\* The ticks so far.
Ticks == now \div cfg.idleSessionCheckInterval

\* No session has closed.
NoDeaths == \A s \in DOMAIN sess : sess[s] \in {"none", "new", "running"}

EffectiveLifetime(s) ==
    IF cfg.connectionLifetimeJitter = 0
      THEN cfg.maxConnectionLifetime
      ELSE cfg.maxConnectionLifetime - cfg.connectionLifetimeJitter
             + (s % (2 * cfg.connectionLifetimeJitter))

\* C19: in every tick, a session's expiry instant is its creation time plus
\* a lifetime that depends on its seq, max_connection_lifetime and the
\* jitter only: max_connection_lifetime without jitter,
\* max - jitter + (seq mod 2 * jitter) with it, always within
\* [max - jitter, max + jitter).  A session the idle phase leaves is closed
\* for its age only past that instant, is closed or protected by the age
\* floor once past it, is never closed at an age of max - jitter or less
\* and always (with no age floor) at an age of max + jitter or more.
C19_JitterDeterminism ==
    [][(ScanStep /\ cfg.maxConnectionLifetime > 0)
          => LET left == IdleSeqs \ IdleClosed'
                 expired == {s \in left :
                               now' > createdAt[s] + EffectiveLifetime(s)}
             IN  /\ AgeClosed' \subseteq expired
                 /\ Cardinality(expired \ AgeClosed')
                      = MinOf(cfg.minIdleSessionForAge, Cardinality(expired))
                 /\ \A s \in AgeClosed' :
                      now' - createdAt[s]
                        > cfg.maxConnectionLifetime
                            - cfg.connectionLifetimeJitter
                 /\ \A s \in left :
                      (/\ cfg.minIdleSessionForAge = 0
                       /\ now' - createdAt[s]
                            >= cfg.maxConnectionLifetime
                                 + cfg.connectionLifetimeJitter)
                        => s \in AgeClosed']_vars

\* With jitter, a pass has closed for its age a session younger than
\* max_connection_lifetime.
C19_Witness ==
    /\ tpc = "closing" /\ cfg.connectionLifetimeJitter > 0
    /\ \E s \in AgeClosed : now - createdAt[s] < cfg.maxConnectionLifetime

\* C20: the jitter offset is seq mod (2 * jitter) counted in seconds: with
\* max_connection_lifetime = 100 s and jitter = 10 s, session 1 lives 91 s
\* and session 2 lives 92 s, so neither is closed for its age before, and a
\* tick 105 s after their creation closes both when there is no age floor.
C20_OffsetInSeconds ==
    [][(ScanStep /\ cfg.maxConnectionLifetime = 100 * Second
                 /\ cfg.connectionLifetimeJitter = 10 * Second)
          => \A s \in (IdleSeqs \ IdleClosed') \cap {1, 2} :
               /\ s \in AgeClosed'
                    => now' - createdAt[s] > (90 + s) * Second
               /\ (/\ cfg.minIdleSessionForAge = 0
                   /\ now' - createdAt[s] = 105 * Second)
                    => s \in AgeClosed']_vars

\* C21: when OpenStream fails in CreateStream the session is closed, the
\* call returns the "failed to create stream" error and no stream, and the
\* session is not in the idle pool from then on; once its death hook has
\* run it is not in the registry either.
C21_OpenStreamFailure ==
    /\ [](\A s \in openFailed :
             /\ IsClosed(s)
             /\ Key(s) \notin idleSession
             /\ (sess[s] = "dead" => s \notin sessions))
    /\ [][\A a \in Acquirers :
             /\ (apc[a] = "open" /\ asess[a] \in openFailed' \ openFailed) =>
                    /\ apc'[a] \in {"closing", "idle"}
                    /\ ares'[a] # "stream"
             /\ (apc[a] \in {"open", "closing"} /\ asess[a] \in openFailed'
                    /\ apc'[a] = "idle") =>
                    ares'[a] = "ErrCreateStream"]_vars

C21_Witness ==
    \E a \in Acquirers : \E s \in openFailed :
        /\ sess[s] = "dead" /\ hookRuns[s] = 1
        /\ apc[a] = "idle" /\ ares[a] = "ErrCreateStream"
        /\ Cardinality(openFailed) = 2
\* C22: CreateStream dials only when it found the idle pool empty; when the
\* dial fails the call returns the "failed to create session" error and
\* that step changes neither the registry, nor the idle pool, nor the
\* session counter: every seq the counter has given out belongs to a
\* session that was made.
C22_DialFailure ==
    /\ [](sessionCounter = Cardinality({s \in Seqs : sess[s] # "none"}))
    /\ [][\A a \in Acquirers :
             /\ (apc[a] = "getIdle" /\ apc'[a] = "dial") =>
                    /\ idleSession = {}
                    /\ UNCHANGED <<sessions, idleSession, sessionCounter>>
             /\ (apc[a] = "dial" /\ apc'[a] = "idle") =>
                    /\ ares'[a] = "ErrCreateSession"
                    /\ asess'[a] = None
                    /\ UNCHANGED <<sessions, idleSession, sessionCounter,
                                   sess, dialDone>>]_vars

C22_Witness ==
    \E a \in Acquirers :
        /\ apc[a] = "idle" /\ ares[a] = "ErrCreateSession"
        /\ sessionCounter = 1 /\ sessions = {1} /\ idleSession = {}
\* The sessions cleanup has collected and not yet closed.
Marked == {tToClose[i] : i \in 1..Len(tToClose)}

\* C26: the pass of one tick splits the idle pool it found into the
\* sessions it keeps and the sessions it marks, each session decided once;
\* when the pass ends the marked sessions are out of the idle pool, and
\* until the tick has closed them no CreateStream holds or pops one.
C26_ConsistentView ==
    /\ [](\A s \in Marked :
             /\ Key(s) \notin idleSession
             /\ \A a \in Acquirers : asess[a] # s)
    /\ [][/\ ScanStep =>
                /\ IdleSeqs' \cup Marked' = IdleSeqs
                /\ IdleSeqs' \cap Marked' = {}
                /\ Cardinality(Marked') = Len(tToClose')
                /\ tPool' = Cardinality(idleSession')
           /\ \A a \in Acquirers :
                (apc[a] = "getIdle" /\ apc'[a] = "open") =>
                    asess'[a] \in IdleSeqs \ Marked]_vars

C26_Witness ==
    \E a \in Acquirers :
        /\ tpc = "closing" /\ tToClose = <<1>>
        /\ apc[a] = "open" /\ asess[a] = 2
\* In this step cleanup's pass finds session s idle for longer than the
\* timeout and resets its idleSince to keep it.
ProtectedFromIdle(s) ==
    /\ ScanStep
    /\ s \in IdleSeqs
    /\ idleSince[s] < now' - cfg.idleSessionTimeout
    /\ idleSince'[s] = now'

\* C30 as stated: a session the pass protects from idle cleanup is still in
\* the idle pool when the pass ends.
C30_ProtectedSurvivesTick ==
    [][\A s \in Seqs : ProtectedFromIdle(s) => s \in IdleSeqs']_vars

\* C30, amended: a session the pass protects from idle cleanup is not
\* closed for idleness by that pass; the same pass removes it only through
\* the age check, when age rotation is on and the session is past its
\* lifetime, and with age rotation off it stays in the idle pool.
C30_ProtectedNotIdleClosed ==
    [][\A s \in Seqs :
          ProtectedFromIdle(s) =>
              /\ s \notin IdleClosed'
              /\ s \in IdleSeqs' \/ s \in AgeClosed'
              /\ s \in AgeClosed' => s \in PastLifetime(now')
              /\ cfg.maxConnectionLifetime = 0 => s \in IdleSeqs']_vars

\* A pass has closed one session for idleness and has kept another that
\* had timed out as well, with its idleSince reset.
C30_Witness ==
    /\ tpc = "closing" /\ tIdleN >= 1 /\ cfg.minIdleSession >= 1
    /\ \E s \in IdleSeqs : idleSince[s] = now /\ createdAt[s] < 0
\* The fields that are durations, and the fields a proxy can also set with
\* its legacy options.
DurationFields ==
    {"IdleSessionCheckInterval", "IdleSessionTimeout",
     "MaxConnectionLifetime", "ConnectionLifetimeJitter"}
LegacyFields ==
    {"IdleSessionCheckInterval", "IdleSessionTimeout", "MinIdleSession"}

\* A per-proxy value of field f in the units of the config: seconds for a
\* duration.
PerProxy(f, v) == IF f \in DurationFields THEN v * Second ELSE v

\* The value of field f by the priority order: the override when it is
\* set, else the legacy value when f has one and it is > 0, else the
\* global value when there is a global config, else 0.
Effective(f) ==
    IF option.SessionOverride # <<>> /\ option.SessionOverride[1][f] # <<>>
      THEN PerProxy(f, option.SessionOverride[1][f][1])
    ELSE IF f \in LegacyFields /\ option[f] > 0
      THEN PerProxy(f, option[f])
    ELSE IF globalAnyTLSSessionConfig # <<>>
      THEN globalAnyTLSSessionConfig[1][f]
    ELSE 0

\* C27: every field of the config NewAnyTLS hands to the Client has the
\* value the priority order gives it: override (also when set to 0), else
\* legacy value > 0, else global value, else 0; per-proxy durations are in
\* seconds.
C27_EffectiveConfig ==
    client => \A f \in OverrideFields : tOption[f] = Effective(f)

\* An override of 0 has won over a legacy value and a global value, and
\* in the same config a legacy value has won over a global value.
C27_Witness ==
    /\ client
    /\ globalAnyTLSSessionConfig # <<>>
    /\ globalAnyTLSSessionConfig[1].MinIdleSession = 2
    /\ option.MinIdleSession = 3
    /\ option.SessionOverride # <<>>
    /\ option.SessionOverride[1].MinIdleSession = <<0>>
    /\ tOption.MinIdleSession = 0
    /\ option.SessionOverride[1].IdleSessionTimeout = <<>>
    /\ option.IdleSessionTimeout = 6
    /\ tOption.IdleSessionTimeout = 6 * Second

\* The floor of NewClient: 30 s for a duration of at most 5 s.
Floored(d) == IF d <= 5 * Second THEN 30 * Second ELSE d

\* C28: a Client made with a check interval of at most 5 s has its ticker
\* fire every 30 s and one made with an idle timeout of at most 5 s uses
\* 30 s; larger values are used as they are, and the six other fields are
\* the config's.
C28_Floors ==
    /\ [](client =>
             /\ cfg.idleSessionCheckInterval
                  = Floored(tOption.IdleSessionCheckInterval)
             /\ cfg.idleSessionTimeout = Floored(tOption.IdleSessionTimeout)
             /\ cfg.minIdleSession = tOption.MinIdleSession
             /\ cfg.ensureIdleSession = tOption.EnsureIdleSession
             /\ cfg.ensureIdleSessionCreateRate
                  = tOption.EnsureIdleSessionCreateRate
             /\ cfg.minIdleSessionForAge = tOption.MinIdleSessionForAge
             /\ cfg.maxConnectionLifetime = tOption.MaxConnectionLifetime
             /\ cfg.connectionLifetimeJitter
                  = tOption.ConnectionLifetimeJitter)
    /\ [][ScanStep =>
             now' - now = Floored(tOption.IdleSessionCheckInterval)]_vars

\* The ticker of a Client made with a check interval of exactly 5 s and an
\* idle timeout just above 5 s has fired at 30 s, and the timeout is kept.
C28_Witness ==
    /\ client /\ tpc = "closing" /\ now = 30 * Second
    /\ tOption.IdleSessionCheckInterval = 5 * Second
    /\ tOption.IdleSessionTimeout = 5 * Second + 1
    /\ cfg.idleSessionTimeout = 5 * Second + 1
\* C29: with no stream returned to the pool, the idle pool never holds more
\* than ensure_idle_session sessions, also when a tick computes its deficit
\* while creators of an earlier tick are still running.
C29_NoOvershoot == Cardinality(idleSession) <= cfg.ensureIdleSession
HoldsNone(t) == idleSessionLock # t /\ sessionsLock # t

Unfinished == {t \in Threads : script[t] # <<>>}
Waits(t) ==
    \/ NextOp(t) = "LockIdle" /\ idleSessionLock # NoThread
    \/ NextOp(t) = "LockSessions" /\ sessionsLock # NoThread

\* C25: no thread asks for idleSessionLock while it holds sessionsLock, a
\* thread that has finished holds no mutex, and in no state do all the
\* unfinished threads wait for a mutex.
C25_NoDeadlock ==
    /\ \A t \in Threads :
          /\ sessionsLock = t => NextOp(t) # "LockIdle"
          /\ script[t] = <<>> => HoldsNone(t)
    /\ ~(Unfinished # {} /\ \A t \in Unfinished : Waits(t))

\* Both mutexes are held and three other threads wait for them.
C25_Witness ==
    /\ idleSessionLock = "cleanup" /\ sessionsLock = "Close"
    /\ NextOp("CreateStream") = "LockIdle"
    /\ NextOp("session") = "LockIdle"
    /\ NextOp("creator") = "LockSessions"
\* The sessions a CreateStream call or its stream holds.
Held == {asess[a] : a \in DOMAIN asess} \ {None}

\* C31: the pass of a tick marks only sessions it found in the idle pool,
\* and the sessions cleanup closes are the marked ones: a session that a
\* CreateStream call or its stream holds (in the registry, out of the idle
\* pool) is never marked and never closed by cleanup, whatever its age.
C31_TickClosesIdleOnly ==
    /\ [](Held \cap Marked = {})
    /\ [][/\ ScanStep => Marked' \subseteq IdleSeqs \ Held
           /\ \A s \in DOMAIN sess :
                (tpc = "closing" /\ tpc' = "inClose" /\ sess'[s] # sess[s])
                    => s \in Marked \ Held]_vars

\* cleanup is closing a session it marked while a stream is open on a
\* session that is past its lifetime and stays running.
C31_Witness ==
    \E a \in DOMAIN apc :
        /\ apc[a] = "stream" /\ sess[asess[a]] = "running"
        /\ asess[a] \in sessions /\ Key(asess[a]) \notin idleSession
        /\ cfg.maxConnectionLifetime > 0
        /\ now - createdAt[asess[a]] > cfg.maxConnectionLifetime
        /\ tpc = "inClose" /\ AgeClosed # {}
\* C32: two CreateStream calls never hold the same session; a session a
\* call or its stream holds is out of the idle pool, and so is a session a
\* creator has not inserted yet, which no call holds; a session enters the
\* idle pool only from the death hook of the stream opened on it or from
\* the one insert of the creator that made it.
C32_ExclusiveHandOut ==
    /\ [](/\ \A a, b \in DOMAIN asess :
                (a # b /\ asess[a] # None) => asess[a] # asess[b]
          /\ \A s \in Held : Key(s) \notin idleSession
          /\ \A s \in cReg \cup cIns :
                s \notin Held /\ Key(s) \notin idleSession)
    /\ [][\A s \in DOMAIN sess :
            (Key(s) \in idleSession' \ idleSession)
                => \/ \E a \in DOMAIN apc :
                        /\ apc[a] = "hookInsert" /\ asess[a] = s
                        /\ apc'[a] = "idle" /\ asess'[a] = None
                   \/ s \in cIns \ cIns']_vars

\* Each of the two calls holds a stream on a session it took from the idle
\* pool (nothing was dialled), and the two sessions differ.
C32_Witness ==
    /\ DOMAIN apc = Callers
    /\ \A a \in Callers : apc[a] = "stream" /\ sess[asess[a]] = "running"
    /\ asess[1] # asess[2]
    /\ dialDone = <<>>
====
